---- MODULE Spec2Model ----
(***************************************************************************)
(* A model of the SR template layer of highdicom                          *)
(* (src/src/highdicom/sr/templates.py): measurement groups, the ROI        *)
(* classification heuristics, ROI reference extraction, the ROI group      *)
(* constructors, the Measurement Report constructor and its                *)
(* measurement-group getters.                                              *)
(*                                                                         *)
(* A content item is a record                                              *)
(*   [name, vt, rel, val, tid, content]                                    *)
(* name: the coded concept name (a CodedConcept is identified by scheme    *)
(* and code value, here by one string), vt: the value type, rel: the       *)
(* relationship type ("None" when unset), val: the value, tid: the         *)
(* template identifier ("None" when the item carries none), content: the   *)
(* item's ContentSequence.  None is the string "None".                     *)
(*                                                                         *)
(* A call's outcome is [status, value]: status "ok" with the returned      *)
(* value, or the name of the raised exception with the place that raised.  *)
(***************************************************************************)
EXTENDS Integers, Sequences, FiniteSets, TLC

VARIABLES
    group,   \* the content item under work: the measurement group
             \* (SpecGroup), the NUM item of a measurement (SpecMeasurement)
    report,  \* the Measurement Report under work, NoReport before one exists
    last     \* the last call: [op, args, result]

vars == <<group, report, last>>

None == "None"

\* Bounds of the model
MaxItems == 3    \* children of the measurement group under work
MaxMeasurements == 2    \* measurements handed to a group constructor

Ok(v) == [status |-> "ok", value |-> v]

Raise(exc, site) == [status |-> exc, value |-> site]

NoCall == [op |-> "none", args |-> None, result |-> Ok(None)]

\* A sequence that holds no report yet.
NoReport == [is_root |-> FALSE, items |-> <<>>]

Item(name, vt, rel, val) ==
    [name |-> name, vt |-> vt, rel |-> rel, val |-> val,
     tid |-> None, content |-> <<>>]

ContainerItem(name, rel, tid, content) ==
    [name |-> name, vt |-> "CONTAINER", rel |-> rel, val |-> None,
     tid |-> tid, content |-> content]

Count(s, Test(_)) == Len(SelectSeq(s, Test))

\* highdicom.sr.utils.find_content_items, non-recursive: the direct children
\* matching every supplied filter, in document order.
find_content_items(parent, name, value_type, relationship_type) ==
    SelectSeq(parent.content,
              LAMBDA it: /\ (name = None \/ it.name = name)
                         /\ (value_type = None \/ it.vt = value_type)
                         /\ (relationship_type = None
                             \/ it.rel = relationship_type))

(***************************************************************************)
(* ROI classification heuristics                                           *)
(***************************************************************************)

_count_roi_items(group_item) ==
    IF group_item.vt # "CONTAINER"
    THEN Raise("ValueError", "not CONTAINER")
    ELSE IF group_item.name # "MeasurementGroup"
    THEN Raise("ValueError", "not Measurement Group")
    ELSE LET c == group_item.content IN
         Ok(<<Count(c, LAMBDA it: it.name = "ImageRegion" /\ it.vt = "SCOORD"),
              Count(c, LAMBDA it: it.name = "ImageRegion" /\ it.vt = "SCOORD3D"),
              Count(c, LAMBDA it: it.name = "VolumeSurface" /\ it.vt = "SCOORD3D"),
              Count(c, LAMBDA it: it.name = "ReferencedSegment" /\ it.vt = "IMAGE"),
              Count(c, LAMBDA it: it.name = "ReferencedSegmentationFrame"
                                  /\ it.vt = "IMAGE"),
              Count(c, LAMBDA it: it.name = "RegionInSpace"
                                  /\ it.vt = "COMPOSITE")>>)

\* Mutant: the 3D image regions are left out of the image-region count.
PlanarTest_2DOnly(n) ==
    /\ \/ n[1] = 1
       \/ n[5] > 0
       \/ n[6] = 1
    /\ n[3] = 0 /\ n[4] = 0

PlanarTest(n) ==
    /\ \/ (n[1] + n[2]) = 1
       \/ n[5] > 0
       \/ n[6] = 1
    /\ n[3] = 0 /\ n[4] = 0

_contains_planar_rois(group_item) ==
    LET c == _count_roi_items(group_item) IN
    IF c.status # "ok" THEN c ELSE Ok(PlanarTest(c.value))

\* Mutant: the exclusion of 3D image regions is forgotten.
VolumetricTest_No3DCheck(n) ==
    /\ \/ n[1] > 1
       \/ n[4] > 0
       \/ n[3] > 0
       \/ n[6] > 0
    /\ n[5] = 0

\* Mutant: a single 2D image region already counts as volumetric.
VolumetricTest_SingleRegion(n) ==
    /\ \/ n[1] > 0
       \/ n[4] > 0
       \/ n[3] > 0
       \/ n[6] > 0
    /\ n[5] = 0 /\ n[2] = 0

VolumetricTest(n) ==
    /\ \/ n[1] > 1
       \/ n[4] > 0
       \/ n[3] > 0
       \/ n[6] > 0
    /\ n[5] = 0 /\ n[2] = 0

_contains_volumetric_rois(group_item) ==
    LET c == _count_roi_items(group_item) IN
    IF c.status # "ok" THEN c ELSE Ok(VolumetricTest(c.value))

(***************************************************************************)
(* ROI reference extraction                                                *)
(***************************************************************************)

PlanarAllowed == {"ImageRegion", "ReferencedSegmentationFrame", "RegionInSpace"}

VolumetricAllowed ==
    {"ImageRegion", "ReferencedSegment", "VolumeSurface", "RegionInSpace"}

ref_type_value_type_map(name) ==
    CASE name = "ImageRegion" -> {"SCOORD", "SCOORD3D"}
      [] name = "VolumeSurface" -> {"SCOORD3D"}
      [] name = "ReferencedSegment" -> {"IMAGE"}
      [] name = "ReferencedSegmentationFrame" -> {"IMAGE"}
      [] name = "RegionInSpace" -> {"COMPOSITE"}

\* Mutant: only image regions admit more than one item.
MultipleAllowed_RegionsOnly == {"ImageRegion"}

MultipleAllowed == {"ImageRegion", "VolumeSurface"}

\* The loop of _get_roi_reference_items from child i on, with the reference
\* type and the items found so far.
RECURSIVE RoiReferenceLoop(_, _, _, _, _)
RoiReferenceLoop(c, allowed, i, reference_type, returned_items) ==
    IF i > Len(c)
    THEN IF Len(returned_items) = 0
         THEN Raise("RuntimeError", "no reference")
         ELSE Ok(<<reference_type, returned_items>>)
    ELSE LET item == c[i] IN
         IF item.rel # "CONTAINS"
         THEN RoiReferenceLoop(c, allowed, i + 1, reference_type, returned_items)
         ELSE IF item.name \in allowed /\ item.vt \in ref_type_value_type_map(item.name)
         THEN IF reference_type = None
              THEN RoiReferenceLoop(c, allowed, i + 1, item.name,
                                    Append(returned_items, item))
              ELSE IF item.name # reference_type
              THEN Raise("RuntimeError", "different reference types")
              ELSE IF reference_type \notin MultipleAllowed
              THEN Raise("RuntimeError", "multiple reference items")
              ELSE RoiReferenceLoop(c, allowed, i + 1, reference_type,
                                    Append(returned_items, item))
         ELSE RoiReferenceLoop(c, allowed, i + 1, reference_type, returned_items)

_get_roi_reference_items(group_item, allowed_reference_types) ==
    RoiReferenceLoop(group_item.content, allowed_reference_types, 1, None, <<>>)

_get_planar_roi_reference_item(group_item) ==
    LET r == _get_roi_reference_items(group_item, PlanarAllowed) IN
    IF r.status # "ok" THEN r
    ELSE IF Len(r.value[2]) > 1
    THEN Raise("RuntimeError", "multiple planar reference items")
    ELSE Ok(<<r.value[1], r.value[2][1]>>)

_get_volumetric_roi_reference_items(group_item) ==
    _get_roi_reference_items(group_item, VolumetricAllowed)


(***************************************************************************)
(* Values handed to the constructors.  A Python object is a record         *)
(* [type, items]: its concrete class and the content items it holds (a     *)
(* template holds a sequence, a ContentItem subclass holds itself, a list  *)
(* holds its elements).  None is NoneV.                                    *)
(***************************************************************************)

Obj(type, items) == [type |-> type, items |-> items]

NoneV == Obj("NoneType", <<>>)

IsNone(x) == x.type = "NoneType"

List(elems) == Obj("list", elems)

\* An object of a class no constructor accepts.
Stranger == Obj("str", <<>>)

\* TID 4108
TrackingIdentifier(uid, identifier) ==
    Obj("TrackingIdentifier",
        (IF identifier # None
         THEN <<Item("TrackingIdentifier", "TEXT", "HAS_OBS_CONTEXT", identifier)>>
         ELSE <<>>)
        \o <<Item("TrackingUniqueIdentifier", "UIDREF", "HAS_OBS_CONTEXT", uid)>>)

\* Mutant: the supplied uid is ignored and a new one is generated.
TrackingIdentifierInit_AlwaysGenerated(uid, identifier, generated) ==
    TrackingIdentifier(generated, identifier)

\* TrackingIdentifier.__init__: an omitted uid is replaced by UID(), a newly
\* generated unique identifier (generated).
TrackingIdentifierInit(uid, identifier, generated) ==
    TrackingIdentifier(IF uid = None THEN generated ELSE uid, identifier)

\* TID 4019
AlgorithmIdentification(name, version) ==
    Obj("AlgorithmIdentification",
        <<Item("AlgorithmName", "TEXT", "HAS_CONCEPT_MOD", name),
          Item("AlgorithmVersion", "TEXT", "HAS_CONCEPT_MOD", version)>>)

\* TID 1502, with the time point and its optional type and order
TimePointContext(time_point, time_point_type, time_point_order) ==
    Obj("TimePointContext",
        <<Item("TimePoint", "TEXT", "HAS_OBS_CONTEXT", time_point)>>
        \o (IF time_point_type # None
            THEN <<Item("TimePointType", "CODE", "HAS_OBS_CONTEXT", time_point_type)>>
            ELSE <<>>)
        \o (IF time_point_order # None
            \* a NumContentItem with the unit '1' (no units)
            THEN <<[name |-> "TimePointOrder", vt |-> "NUM",
                    rel |-> "HAS_OBS_CONTEXT",
                    val |-> [value |-> time_point_order, unit |-> "1",
                             qualifier |-> None],
                    tid |-> None, content |-> <<>>]>>
            ELSE <<>>))

QualitativeEvaluation(name, value) ==
    Obj("QualitativeEvaluation", <<Item(name, "CODE", "CONTAINS", value)>>)

\* The content items of highdicom.sr.content
FindingSite(anatomic_location) ==
    Obj("FindingSite",
        <<Item("FindingSite", "CODE", "HAS_CONCEPT_MOD", anatomic_location)>>)

SourceImage(name, rel, uid) == Item(name, "IMAGE", rel, uid)

ImageRegion(graphic_type, source_uid) ==
    Obj("ImageRegion",
        <<[Item("ImageRegion", "SCOORD", "CONTAINS", graphic_type) EXCEPT
              !.content = <<SourceImage("SourceImage", "SELECTED_FROM", source_uid)>>]>>)

ImageRegion3D(graphic_type) ==
    Obj("ImageRegion3D", <<Item("ImageRegion", "SCOORD3D", "CONTAINS", graphic_type)>>)

VolumeSurface(graphic_type, source_uid) ==
    Obj("VolumeSurface",
        <<Item("VolumeSurface", "SCOORD3D", "CONTAINS", graphic_type),
          SourceImage("SourceImageForSegmentation", "CONTAINS", source_uid)>>)

ReferencedSegment(seg_uid, source_uid) ==
    Obj("ReferencedSegment",
        <<SourceImage("ReferencedSegment", "CONTAINS", seg_uid),
          SourceImage("SourceImageForSegmentation", "CONTAINS", source_uid)>>)

ReferencedSegmentationFrame(seg_uid, source_uid) ==
    Obj("ReferencedSegmentationFrame",
        <<SourceImage("ReferencedSegmentationFrame", "CONTAINS", seg_uid),
          SourceImage("SourceImageForSegmentation", "CONTAINS", source_uid)>>)

RealWorldValueMap(uid) ==
    Obj("RealWorldValueMap", <<Item("RealWorldValueMap", "COMPOSITE", "CONTAINS", uid)>>)

CoordinatesForMeasurement(graphic_type, source_uid) ==
    Obj("CoordinatesForMeasurement",
        <<[Item("ReferencedCoordinates", "SCOORD", "INFERRED_FROM", graphic_type) EXCEPT
              !.content = <<SourceImage("SourceImage", "SELECTED_FROM", source_uid)>>]>>)

CoordinatesForMeasurement3D(graphic_type) ==
    Obj("CoordinatesForMeasurement3D",
        <<Item("ReferencedCoordinates", "SCOORD3D", "INFERRED_FROM", graphic_type)>>)

\* The items of a sequence of objects, flattened in order.
RECURSIVE Flatten(_)
Flatten(objs) ==
    IF objs = <<>> THEN <<>> ELSE Head(objs).items \o Flatten(Tail(objs))

AllOfType(objs, types) == \A i \in DOMAIN objs : objs[i].type \in types

(***************************************************************************)
(* TID 300 Measurement                                                     *)
(***************************************************************************)

\* A NUM content item: its value is the measured value with its unit and the
\* optional qualifier.
NumContentItem(name, value, unit, qualifier, relationship_type) ==
    Item(name, "NUM", relationship_type,
         [value |-> value, unit |-> unit, qualifier |-> qualifier])

\* Measurement.__init__ with the arguments a.name, a.value, a.unit,
\* a.qualifier, a.method, a.derivation, a.finding_sites,
\* a.referenced_coordinates (the other optional arguments are left None).
MeasurementInit(a) ==
    IF ~IsNone(a.finding_sites) /\ a.finding_sites.type \notin {"list", "tuple", "set"}
    THEN Raise("TypeError", "finding_sites")
    ELSE IF ~IsNone(a.finding_sites) /\ ~AllOfType(a.finding_sites.items, {"FindingSite"})
    THEN Raise("TypeError", "finding_sites items")
    ELSE IF /\ ~IsNone(a.referenced_coordinates)
            /\ ~AllOfType(a.referenced_coordinates.items,
                          {"CoordinatesForMeasurement", "CoordinatesForMeasurement3D",
                           "Scoord3DContentItem"})
    THEN Raise("TypeError", "referenced_coordinates")
    ELSE LET content ==
                (IF a.method # None
                 THEN <<Item("MeasurementMethod", "CODE", "HAS_CONCEPT_MOD", a.method)>>
                 ELSE <<>>)
                \o (IF a.derivation # None
                    THEN <<Item("Derivation", "CODE", "HAS_CONCEPT_MOD", a.derivation)>>
                    ELSE <<>>)
                \o (IF ~IsNone(a.finding_sites)
                    THEN Flatten(a.finding_sites.items) ELSE <<>>)
                \o (IF ~IsNone(a.referenced_coordinates)
                    THEN Flatten(a.referenced_coordinates.items) ELSE <<>>)
         IN Ok(Obj("Measurement",
                   <<[NumContentItem(a.name, a.value, a.unit, a.qualifier,
                                     "CONTAINS") EXCEPT
                         !.content = content]>>))

\* Measurement.referenced_coordinates: the SCOORD children of the NUM item,
\* then its SCOORD3D children.
referenced_coordinates(measurement) ==
    IF measurement.items[1].content = <<>>
    THEN <<>>
    ELSE find_content_items(measurement.items[1], None, "SCOORD", None)
         \o find_content_items(measurement.items[1], None, "SCOORD3D", None)


(***************************************************************************)
(* TID 1501 / 1410 / 1411 measurement group constructors                   *)
(***************************************************************************)

OptItem(v, name, vt, rel) == IF v # None THEN <<Item(name, vt, rel, v)>> ELSE <<>>

OptItems(obj) == IF IsNone(obj) THEN <<>> ELSE obj.items

OptFlatten(lst) == IF IsNone(lst) THEN <<>> ELSE Flatten(lst.items)

\* _MeasurementsAndQualitativeEvaluations.__init__
MQEBaseInit(a) ==
    IF a.tracking_identifier.type # "TrackingIdentifier"
    THEN Raise("TypeError", "tracking_identifier")
    ELSE IF Len(a.tracking_identifier.items) = 1
    THEN Raise("ValueError", "tracking_identifier")
    ELSE IF ~IsNone(a.finding_sites) /\ a.finding_sites.type \notin {"list", "tuple", "set"}
    THEN Raise("TypeError", "finding_sites")
    ELSE IF ~IsNone(a.finding_sites) /\ ~AllOfType(a.finding_sites.items, {"FindingSite"})
    THEN Raise("TypeError", "finding_sites items")
    ELSE IF ~IsNone(a.algorithm_id) /\ a.algorithm_id.type # "AlgorithmIdentification"
    THEN Raise("TypeError", "algorithm_id")
    ELSE IF ~IsNone(a.time_point_context) /\ a.time_point_context.type # "TimePointContext"
    THEN Raise("TypeError", "time_point_context")
    ELSE IF /\ ~IsNone(a.referenced_real_world_value_map)
            /\ a.referenced_real_world_value_map.type # "RealWorldValueMap"
    THEN Raise("TypeError", "referenced_real_world_value_map")
    ELSE IF ~IsNone(a.measurements) /\ ~AllOfType(a.measurements.items, {"Measurement"})
    THEN Raise("TypeError", "measurements")
    ELSE IF /\ ~IsNone(a.qualitative_evaluations)
            /\ ~AllOfType(a.qualitative_evaluations.items, {"QualitativeEvaluation"})
    THEN Raise("TypeError", "qualitative_evaluations")
    ELSE LET content ==
                a.tracking_identifier.items
                \o OptItem(a.session, "ActivitySession", "TEXT", "HAS_OBS_CONTEXT")
                \o OptItem(a.finding_category, "FindingCategory", "CODE", "CONTAINS")
                \o OptItem(a.finding_type, "Finding", "CODE", "CONTAINS")
                \o OptItem(a.method, "MeasurementMethod", "CODE", "CONTAINS")
                \o OptFlatten(a.finding_sites)
                \o OptItems(a.algorithm_id)
                \o OptItems(a.time_point_context)
                \o OptItems(a.referenced_real_world_value_map)
                \o OptFlatten(a.measurements)
                \o OptFlatten(a.qualitative_evaluations)
         IN Ok(<<ContainerItem("MeasurementGroup", "CONTAINS", "1501", content)>>)

\* MeasurementsAndQualitativeEvaluations.__init__ (TID 1501)
MQEInit(a) ==
    LET base == MQEBaseInit(a) IN
    IF base.status # "ok" THEN base
    ELSE IF /\ ~IsNone(a.source_images)
            /\ ~AllOfType(a.source_images.items, {"SourceImageForMeasurementGroup"})
    THEN Raise("TypeError", "source_images")
    ELSE Ok(<<[base.value[1] EXCEPT
                  !.content = @ \o OptFlatten(a.source_images)]>>)

\* Mutant: a second ROI reference is silently accepted.
TooManyReferences_Never(n) == FALSE

TooManyReferences(n) == n > 1

\* Mutant: only the first measurement is inspected for referenced coordinates.
AnyReferencedCoordinates_FirstOnly(measurements) ==
    /\ measurements # <<>>
    /\ referenced_coordinates(measurements[1]) # <<>>

\* Whether the loop over the measurements finds one with referenced
\* coordinates.
AnyReferencedCoordinates(measurements) ==
    \E i \in DOMAIN measurements : referenced_coordinates(measurements[i]) # <<>>

\* _ROIMeasurementsAndQualitativeEvaluations.__init__
ROIBaseInit(a) ==
    LET base == MQEBaseInit(a)
        were_references_provided ==
            (IF ~IsNone(a.referenced_regions) THEN 1 ELSE 0)
            + (IF ~IsNone(a.referenced_volume_surface) THEN 1 ELSE 0)
            + (IF ~IsNone(a.referenced_segment) THEN 1 ELSE 0)
    IN
    IF base.status # "ok" THEN base
    ELSE IF were_references_provided = 0
    THEN Raise("ValueError", "no reference")
    ELSE IF TooManyReferences(were_references_provided)
    THEN Raise("ValueError", "multiple references")
    ELSE IF ~IsNone(a.referenced_regions) /\ Len(a.referenced_regions.items) = 0
    THEN Raise("ValueError", "empty referenced_regions")
    ELSE IF /\ ~IsNone(a.referenced_regions)
            /\ ~AllOfType(a.referenced_regions.items, {"ImageRegion", "ImageRegion3D"})
    THEN Raise("TypeError", "referenced_regions")
    ELSE IF /\ IsNone(a.referenced_regions)
            /\ ~IsNone(a.referenced_volume_surface)
            /\ a.referenced_volume_surface.type # "VolumeSurface"
    THEN Raise("TypeError", "referenced_volume_surface")
    ELSE IF /\ IsNone(a.referenced_regions)
            /\ IsNone(a.referenced_volume_surface)
            /\ ~IsNone(a.referenced_segment)
            /\ a.referenced_segment.type \notin
                   {"ReferencedSegment", "ReferencedSegmentationFrame"}
    THEN Raise("TypeError", "referenced_segment")
    ELSE IF ~IsNone(a.measurements) /\ AnyReferencedCoordinates(a.measurements.items)
    THEN Raise("ValueError", "referenced coordinates")
    ELSE Ok(<<[base.value[1] EXCEPT
                  !.content =
                      @ \o OptItem(a.geometric_purpose, "GeometricPurposeOfRegion",
                                   "CODE", "CONTAINS")
                        \o (IF ~IsNone(a.referenced_regions)
                            THEN Flatten(a.referenced_regions.items)
                            ELSE IF ~IsNone(a.referenced_volume_surface)
                            THEN a.referenced_volume_surface.items
                            ELSE a.referenced_segment.items)]>>)

\* PlanarROIMeasurementsAndQualitativeEvaluations.__init__ (TID 1410)
PlanarInit(a) ==
    LET were_references_provided ==
            (IF ~IsNone(a.referenced_region) THEN 1 ELSE 0)
            + (IF ~IsNone(a.referenced_segment) THEN 1 ELSE 0)
    IN
    IF were_references_provided = 0
    THEN Raise("ValueError", "planar: no reference")
    ELSE IF TooManyReferences(were_references_provided)
    THEN Raise("ValueError", "planar: multiple references")
    ELSE IF /\ ~IsNone(a.referenced_region)
            /\ a.referenced_region.type \notin {"ImageRegion", "ImageRegion3D"}
    THEN Raise("TypeError", "planar: referenced_region")
    ELSE IF /\ ~IsNone(a.referenced_segment)
            /\ a.referenced_segment.type # "ReferencedSegmentationFrame"
    THEN Raise("TypeError", "planar: referenced_segment")
    ELSE LET roi == ROIBaseInit(
                        [a EXCEPT !.referenced_regions =
                                      IF IsNone(a.referenced_region) THEN NoneV
                                      ELSE List(<<a.referenced_region>>),
                                  !.referenced_volume_surface = NoneV])
         IN IF roi.status # "ok" THEN roi
            ELSE Ok(<<[roi.value[1] EXCEPT !.tid = "1410"]>>)

\* VolumetricROIMeasurementsAndQualitativeEvaluations.__init__ (TID 1411)
VolumetricInit(a) ==
    IF /\ ~IsNone(a.referenced_regions)
       /\ \E i \in DOMAIN a.referenced_regions.items :
              a.referenced_regions.items[i].type = "ImageRegion3D"
    THEN Raise("TypeError", "volumetric: ImageRegion3D")
    ELSE IF ~IsNone(a.referenced_segment) /\ a.referenced_segment.type # "ReferencedSegment"
    THEN Raise("TypeError", "volumetric: referenced_segment")
    ELSE LET roi == ROIBaseInit(a)
         IN IF roi.status # "ok" THEN roi
            ELSE Ok(<<[roi.value[1] EXCEPT !.tid = "1411"]>>)

(***************************************************************************)
(* SpecGroup: a measurement group as a parsed document may hold it, grown  *)
(* by ContentSequence.append, and the helper functions applied to it.      *)
(***************************************************************************)

\* Children a measurement group of a parsed document may hold: the ROI
\* reference items, items with a reference name but another value type or
\* relationship type, and items that are no ROI reference.
GroupChildren ==
    { Item("ImageRegion", "SCOORD", "CONTAINS", "r1"),
      Item("ImageRegion", "SCOORD", "CONTAINS", "r2"),
      Item("ImageRegion", "SCOORD3D", "CONTAINS", "r3"),
      Item("VolumeSurface", "SCOORD3D", "CONTAINS", "v1"),
      Item("ReferencedSegment", "IMAGE", "CONTAINS", "s1"),
      Item("ReferencedSegmentationFrame", "IMAGE", "CONTAINS", "f1"),
      Item("RegionInSpace", "COMPOSITE", "CONTAINS", "c1"),
      Item("ImageRegion", "TEXT", "CONTAINS", "t1"),
      Item("ImageRegion", "SCOORD", "HAS_PROPERTIES", "r4"),
      Item("Finding", "CODE", "CONTAINS", "F1") }

NotAContentItem == [name |-> None, vt |-> "NotAContentItem", rel |-> None,
                    val |-> None, tid |-> None, content |-> <<>>]

InitialGroups ==
    { ContainerItem("MeasurementGroup", "CONTAINS", None, <<>>),
      ContainerItem("ImagingMeasurements", "CONTAINS", None, <<>>),
      [ContainerItem("MeasurementGroup", "CONTAINS", None, <<>>)
          EXCEPT !.vt = "TEXT"] }

InitGroup ==
    /\ group \in InitialGroups
    /\ report = NoReport
    /\ last = NoCall

\* ContentSequence.append on the group's content: admits ContentItems only.
AppendItem(item) ==
    /\ Len(group.content) < MaxItems
    /\ IF item.vt = "NotAContentItem"
       THEN /\ last' = [op |-> "append", args |-> item,
                        result |-> Raise("TypeError", "append")]
            /\ UNCHANGED group
       ELSE /\ group' = [group EXCEPT !.content = Append(@, item)]
            /\ last' = [op |-> "append", args |-> item, result |-> Ok(None)]
    /\ UNCHANGED report

CountRoiItems ==
    /\ last' = [op |-> "_count_roi_items", args |-> None,
                result |-> _count_roi_items(group)]
    /\ UNCHANGED <<group, report>>

ContainsPlanarRois ==
    /\ last' = [op |-> "_contains_planar_rois", args |-> None,
                result |-> _contains_planar_rois(group)]
    /\ UNCHANGED <<group, report>>

ContainsVolumetricRois ==
    /\ last' = [op |-> "_contains_volumetric_rois", args |-> None,
                result |-> _contains_volumetric_rois(group)]
    /\ UNCHANGED <<group, report>>

GetRoiReferenceItems(allowed) ==
    /\ last' = [op |-> "_get_roi_reference_items", args |-> allowed,
                result |-> _get_roi_reference_items(group, allowed)]
    /\ UNCHANGED <<group, report>>

GetPlanarRoiReferenceItem ==
    /\ last' = [op |-> "_get_planar_roi_reference_item", args |-> None,
                result |-> _get_planar_roi_reference_item(group)]
    /\ UNCHANGED <<group, report>>

GetVolumetricRoiReferenceItems ==
    /\ last' = [op |-> "_get_volumetric_roi_reference_items", args |-> None,
                result |-> _get_volumetric_roi_reference_items(group)]
    /\ UNCHANGED <<group, report>>

NextGroup ==
    \/ \E item \in GroupChildren \cup {NotAContentItem} : AppendItem(item)
    \/ CountRoiItems
    \/ ContainsPlanarRois
    \/ ContainsVolumetricRois
    \/ \E allowed \in {PlanarAllowed, VolumetricAllowed} :
           GetRoiReferenceItems(allowed)
    \/ GetPlanarRoiReferenceItem
    \/ GetVolumetricRoiReferenceItems

SpecGroup == InitGroup /\ [][NextGroup]_vars

(***************************************************************************)
(* SpecCtor: the measurement group constructors applied to arguments drawn *)
(* from small sets.                                                        *)
(***************************************************************************)

SeqsUpTo(S, n) == UNION {[1..k -> S] : k \in 0..n}

MeasurementArgs ==
    [name : {"Area"}, value : {"10"}, unit : {"mm2"}, qualifier : {None},
     method : {None, "Planimetry"},
     derivation : {None}, finding_sites : {NoneV},
     referenced_coordinates :
         {NoneV,
          List(<<CoordinatesForMeasurement("POLYLINE", "img1")>>),
          List(<<CoordinatesForMeasurement3D("POLYGON")>>)}]

\* The measurements a caller can hold: built by the constructor without
\* referenced coordinates, with a method only, or with referenced
\* coordinates; and an object that is no Measurement.
MeasurementPool ==
    {MeasurementInit(m).value : m \in {x \in MeasurementArgs :
                                           x.method = None \/ IsNone(x.referenced_coordinates)}}
    \cup {Stranger}

DefaultArgs ==
    [tracking_identifier |-> TrackingIdentifier("1.2.3", "lesion-1"),
     referenced_real_world_value_map |-> NoneV,
     time_point_context |-> NoneV,
     finding_type |-> None,
     method |-> None,
     algorithm_id |-> NoneV,
     finding_sites |-> NoneV,
     session |-> None,
     measurements |-> NoneV,
     qualitative_evaluations |-> NoneV,
     finding_category |-> None,
     geometric_purpose |-> None,
     source_images |-> NoneV,
     referenced_region |-> NoneV,
     referenced_regions |-> NoneV,
     referenced_volume_surface |-> NoneV,
     referenced_segment |-> NoneV]

AllOptionalArgs ==
    [DefaultArgs EXCEPT
        !.referenced_real_world_value_map = RealWorldValueMap("rwvm1"),
        !.time_point_context = TimePointContext("tp1", "Baseline", "1"),
        !.finding_type = "F1",
        !.method = "RECIST",
        !.algorithm_id = AlgorithmIdentification("algo", "1.0"),
        !.finding_sites = List(<<FindingSite("S1")>>),
        !.session = "session1",
        !.qualitative_evaluations = List(<<QualitativeEvaluation("Q1", "A1")>>),
        !.finding_category = "Cat1",
        !.geometric_purpose = "Outline"]

\* The optional arguments other than the ROI references and the
\* measurements: none, each one alone (well typed or not), or all.
OptionalArgs ==
    { DefaultArgs, AllOptionalArgs,
      [DefaultArgs EXCEPT !.session = "session1"],
      [DefaultArgs EXCEPT !.finding_category = "Cat1"],
      [DefaultArgs EXCEPT !.finding_type = "F1"],
      [DefaultArgs EXCEPT !.method = "RECIST"],
      [DefaultArgs EXCEPT !.geometric_purpose = "Outline"],
      [DefaultArgs EXCEPT !.finding_sites = List(<<FindingSite("S1")>>)],
      [DefaultArgs EXCEPT !.finding_sites = List(<<Stranger>>)],
      [DefaultArgs EXCEPT !.algorithm_id = AlgorithmIdentification("algo", "1.0")],
      [DefaultArgs EXCEPT !.time_point_context = TimePointContext("tp1", "Baseline", "1")],
      [DefaultArgs EXCEPT !.referenced_real_world_value_map = RealWorldValueMap("rwvm1")],
      [DefaultArgs EXCEPT !.qualitative_evaluations =
                              List(<<QualitativeEvaluation("Q1", "A1")>>)],
      [DefaultArgs EXCEPT !.qualitative_evaluations = List(<<Stranger>>)] }

TrackingIdentifierArgs ==
    { TrackingIdentifier("1.2.3", "lesion-1"), TrackingIdentifier("1.2.3", None), Stranger }

MeasurementsArgs ==
    {NoneV} \cup {List(ms) : ms \in SeqsUpTo(MeasurementPool, MaxMeasurements)}

RegionArgs == { NoneV, ImageRegion("POLYLINE", "img1"), ImageRegion3D("POLYGON"), Stranger }

RegionsArgs ==
    { NoneV, List(<<>>),
      List(<<ImageRegion("POLYLINE", "img1")>>),
      List(<<ImageRegion("POLYLINE", "img1"), ImageRegion("CIRCLE", "img2")>>),
      List(<<ImageRegion("POLYLINE", "img1"), ImageRegion3D("POLYGON")>>),
      List(<<Stranger>>) }

VolumeSurfaceArgs == { NoneV, VolumeSurface("ELLIPSOID", "img1"), Stranger }

SegmentArgs ==
    { NoneV, ReferencedSegment("seg1", "img1"),
      ReferencedSegmentationFrame("seg1", "img1"), Stranger }

InitCtor ==
    /\ group = ContainerItem("MeasurementGroup", "CONTAINS", None, <<>>)
    /\ report = NoReport
    /\ last = NoCall

\* A constructor call with its arguments and its outcome.
Constructed(op, a, result) ==
    /\ last' = [op |-> op, args |-> a, result |-> result]
    /\ UNCHANGED <<group, report>>

\* A caller holds no state between calls: the constructors are pure, so a
\* behaviour makes one call.
ConstructPlanar ==
    /\ last.op = "none"
    /\ \E o \in OptionalArgs, ti \in TrackingIdentifierArgs, ms \in MeasurementsArgs,
          r \in RegionArgs, sg \in SegmentArgs :
           LET a == [o EXCEPT !.tracking_identifier = ti, !.measurements = ms,
                              !.referenced_region = r, !.referenced_segment = sg]
           IN Constructed("PlanarROI", a, PlanarInit(a))

ConstructVolumetric ==
    /\ last.op = "none"
    /\ \E o \in OptionalArgs, ti \in TrackingIdentifierArgs, ms \in MeasurementsArgs,
          rs \in RegionsArgs, vs \in VolumeSurfaceArgs, sg \in SegmentArgs :
           LET a == [o EXCEPT !.tracking_identifier = ti, !.measurements = ms,
                              !.referenced_regions = rs,
                              !.referenced_volume_surface = vs,
                              !.referenced_segment = sg]
           IN Constructed("VolumetricROI", a, VolumetricInit(a))

SourceImagesArgs ==
    { NoneV,
      List(<<Obj("SourceImageForMeasurementGroup",
                 <<SourceImage("Source", "CONTAINS", "img1")>>)>>),
      List(<<Stranger>>) }

ConstructGroup ==
    /\ last.op = "none"
    /\ \E o \in OptionalArgs, ti \in TrackingIdentifierArgs, ms \in MeasurementsArgs,
          si \in SourceImagesArgs :
           LET a == [o EXCEPT !.tracking_identifier = ti, !.measurements = ms,
                              !.source_images = si]
           IN Constructed("MeasurementsAndQualitativeEvaluations", a, MQEInit(a))

NextCtor ==
    \/ ConstructPlanar
    \/ ConstructVolumetric
    \/ ConstructGroup

SpecCtor == InitCtor /\ [][NextCtor]_vars

(***************************************************************************)
(* TID 1500 Measurement Report: the parts it is assembled from             *)
(***************************************************************************)

\* A Code or CodedConcept argument, and an enumeration member; both carry
\* their value.
CodedConcept(value) == [type |-> "CodedConcept", items |-> <<>>, value |-> value]

Enum(type, value) == [type |-> type, items |-> <<>>, value |-> value]

NoEnum == Enum("NoneType", None)

\* CodedConcept(value='en-US', scheme_designator='RFC5646')
DEFAULT_LANGUAGE == "RFC5646:en-US"

\* TID 1204
LanguageOfContentItemAndDescendants(language) ==
    Obj("LanguageOfContentItemAndDescendants",
        <<Item("LanguageOfContentItemAndDescendants", "CODE", "HAS_CONCEPT_MOD",
               language)>>)

\* TID 1003
PersonObserverIdentifyingAttributes(name, login_name, organization_name, role_in_organization, role_in_procedure) ==
    Obj("PersonObserverIdentifyingAttributes",
        <<Item("PersonObserverName", "PNAME", "HAS_OBS_CONTEXT", name)>>
        \o OptItem(login_name, "PersonObserverLoginName", "TEXT", "HAS_OBS_CONTEXT")
        \o OptItem(organization_name, "PersonObserverOrganizationName", "TEXT",
                   "HAS_OBS_CONTEXT")
        \o OptItem(role_in_organization, "PersonObserverRoleInTheOrganization",
                   "CODE", "HAS_OBS_CONTEXT")
        \o OptItem(role_in_procedure, "PersonObserverRoleInThisProcedure", "CODE",
                   "HAS_OBS_CONTEXT"))

\* TID 1004
DeviceObserverIdentifyingAttributes(uid, name, manufacturer_name, model_name, serial_number, physical_location, role_in_procedure) ==
    Obj("DeviceObserverIdentifyingAttributes",
        <<Item("DeviceObserverUID", "UIDREF", "HAS_OBS_CONTEXT", uid)>>
        \o OptItem(name, "DeviceObserverName", "TEXT", "HAS_OBS_CONTEXT")
        \o OptItem(manufacturer_name, "DeviceObserverManufacturer", "TEXT",
                   "HAS_OBS_CONTEXT")
        \o OptItem(model_name, "DeviceObserverModelName", "TEXT", "HAS_OBS_CONTEXT")
        \o OptItem(serial_number, "DeviceObserverSerialNumber", "TEXT",
                   "HAS_OBS_CONTEXT")
        \o OptItem(physical_location,
                   "DeviceObserverPhysicalLocationDuringObservation", "TEXT",
                   "HAS_OBS_CONTEXT")
        \o OptItem(role_in_procedure, "DeviceRoleInProcedure", "CODE",
                   "HAS_OBS_CONTEXT"))

\* Mutant: the attributes of a Device observer are not checked.
ObserverContext_PersonOnly(observer_type, observer_identifying_attributes) ==
    IF /\ observer_type = "Person"
       /\ observer_identifying_attributes.type # "PersonObserverIdentifyingAttributes"
    THEN Raise("TypeError", "observer_identifying_attributes")
    ELSE IF observer_type \notin {"Person", "Device"}
    THEN Raise("ValueError", "observer_type")
    ELSE Ok(Obj("ObserverContext",
                <<Item("ObserverType", "CODE", "HAS_OBS_CONTEXT", observer_type)>>
                \o observer_identifying_attributes.items))

\* TID 1002
ObserverContext(observer_type, observer_identifying_attributes) ==
    IF /\ observer_type = "Person"
       /\ observer_identifying_attributes.type # "PersonObserverIdentifyingAttributes"
    THEN Raise("TypeError", "observer_identifying_attributes")
    ELSE IF /\ observer_type = "Device"
            /\ observer_identifying_attributes.type
                   # "DeviceObserverIdentifyingAttributes"
    THEN Raise("TypeError", "observer_identifying_attributes")
    ELSE IF observer_type \notin {"Person", "Device"}
    THEN Raise("ValueError", "observer_type")
    ELSE Ok(Obj("ObserverContext",
                <<Item("ObserverType", "CODE", "HAS_OBS_CONTEXT", observer_type)>>
                \o observer_identifying_attributes.items))

\* TID 1008
SubjectContextFetus(subject_id) ==
    Obj("SubjectContextFetus",
        <<Item("SubjectID", "TEXT", "HAS_OBS_CONTEXT", subject_id)>>)

\* Mutant: the subject class is not checked against the context.
SubjectContext_Unchecked(subject_class, subject_class_specific_context) ==
    LET t == subject_class_specific_context.type IN
    IF t \notin {"SubjectContextSpecimen", "SubjectContextFetus",
                 "SubjectContextDevice"}
    THEN Raise("TypeError", "subject_class_specific_context")
    ELSE Ok(Obj("SubjectContext",
                <<Item("SubjectClass", "CODE", "HAS_OBS_CONTEXT", subject_class)>>
                \o subject_class_specific_context.items))

\* TID 1006
SubjectContext(subject_class, subject_class_specific_context) ==
    LET t == subject_class_specific_context.type IN
    IF t \notin {"SubjectContextSpecimen", "SubjectContextFetus",
                 "SubjectContextDevice"}
    THEN Raise("TypeError", "subject_class_specific_context")
    ELSE IF \/ t = "SubjectContextSpecimen" /\ subject_class # "Specimen"
            \/ t = "SubjectContextFetus" /\ subject_class # "Fetus"
            \/ t = "SubjectContextDevice" /\ subject_class # "Device"
    THEN Raise("TypeError", "subject_class")
    ELSE Ok(Obj("SubjectContext",
                <<Item("SubjectClass", "CODE", "HAS_OBS_CONTEXT", subject_class)>>
                \o subject_class_specific_context.items))

\* TID 1001
ObservationContext(observer_person_context, observer_device_context, subject_context) ==
    IF /\ ~IsNone(observer_person_context)
       /\ observer_person_context.type # "ObserverContext"
    THEN Raise("TypeError", "observer_person_context")
    ELSE IF /\ ~IsNone(observer_device_context)
            /\ observer_device_context.type # "ObserverContext"
    THEN Raise("TypeError", "observer_device_context")
    ELSE IF ~IsNone(subject_context) /\ subject_context.type # "SubjectContext"
    THEN Raise("TypeError", "subject_context")
    ELSE Ok(Obj("ObservationContext",
                OptItems(observer_person_context)
                \o OptItems(observer_device_context)
                \o OptItems(subject_context)))

\* An image handed to the image library, with the attributes the library
\* reads; FrameOfReferenceUID is None when the dataset has no such element.
\* The attributes of the image plane (Rows, Columns, PixelSpacing, ...) that
\* the descriptors copy are present and are named by their keyword.
Dataset(SOPInstanceUID, SOPClassUID, Modality, FrameOfReferenceUID) ==
    [type |-> "Dataset", items |-> <<>>,
     SOPInstanceUID |-> SOPInstanceUID, SOPClassUID |-> SOPClassUID,
     Modality |-> Modality, FrameOfReferenceUID |-> FrameOfReferenceUID]

\* The SOP Class UIDs of the model (a UID is written as the name of its SOP
\* class) and the entries sopclass_to_modality_map holds for them.
sopclass_to_modality_map ==
    [CTImageStorage |-> "CT", EnhancedCTImageStorage |-> "CT",
     MRImageStorage |-> "MR", DigitalXRayImageStorageForPresentation |-> "DX",
     SegmentationStorage |-> "SEG", ComprehensiveSRStorage |-> "SR"]

\* Mutant: an unmapped SOP Class UID falls back to the modality 'Other'.
_get_coded_modality_Default(sop_class_uid) ==
    IF sop_class_uid \in DOMAIN sopclass_to_modality_map
    THEN Ok(sopclass_to_modality_map[sop_class_uid])
    ELSE Ok("OT")

\* The KeyError of the table lookup is raised again as a ValueError.
_get_coded_modality(sop_class_uid) ==
    IF sop_class_uid \in DOMAIN sopclass_to_modality_map
    THEN Ok(sopclass_to_modality_map[sop_class_uid])
    ELSE Raise("ValueError", "_get_coded_modality")

\* highdicom._module_utils.does_iod_have_pixel_data
does_iod_have_pixel_data(sop_class_uid) ==
    sop_class_uid \in {"CTImageStorage", "EnhancedCTImageStorage", "MRImageStorage",
                       "DigitalXRayImageStorageForPresentation",
                       "SegmentationStorage"}

_is_cross_sectional(ds) == ds.Modality \in {"CT", "MR", "PT"}

_is_projection_radiography(ds) ==
    ds.Modality \in {"CR", "DX", "IO", "MG", "PX", "RF", "RG", "XA"}

\* TID 1603
_generate_projection_radiography_descriptors(dataset) ==
    <<Item("PatientOrientationRow", "TEXT", "HAS_ACQ_CONTEXT",
           "PatientOrientation[0]"),
      Item("PatientOrientationColumn", "TEXT", "HAS_ACQ_CONTEXT",
           "PatientOrientation[1]"),
      NumContentItem("HorizontalPixelSpacing", "ImagerPixelSpacing[1]", "mm",
                     None, "HAS_ACQ_CONTEXT"),
      NumContentItem("VerticalPixelSpacing", "ImagerPixelSpacing[0]", "mm",
                     None, "HAS_ACQ_CONTEXT")>>

\* TID 1604, for a dataset without SpacingBetweenSlices
_generate_cross_sectional_descriptors(dataset) ==
    LET mm(name, value) == NumContentItem(name, value, "mm", None, "HAS_ACQ_CONTEXT")
        cosine(name, value) ==
            NumContentItem(name, value, "{-1:1}", None, "HAS_ACQ_CONTEXT")
    IN <<mm("HorizontalPixelSpacing", "PixelSpacing[1]"),
         mm("VerticalPixelSpacing", "PixelSpacing[0]"),
         mm("SliceThickness", "SliceThickness"),
         mm("ImagePositionPatientX", "ImagePositionPatient[0]"),
         mm("ImagePositionPatientY", "ImagePositionPatient[1]"),
         mm("ImagePositionPatientZ", "ImagePositionPatient[2]"),
         cosine("ImageOrientationPatientRowX", "ImageOrientationPatient[0]"),
         cosine("ImageOrientationPatientRowY", "ImageOrientationPatient[1]"),
         cosine("ImageOrientationPatientRowZ", "ImageOrientationPatient[2]"),
         cosine("ImageOrientationPatientColumnX", "ImageOrientationPatient[3]"),
         cosine("ImageOrientationPatientColumnY", "ImageOrientationPatient[4]"),
         cosine("ImageOrientationPatientColumnZ", "ImageOrientationPatient[5]")>>

\* The classes of highdicom.sr.value_types that derive from ContentItem.
ContentItemClasses ==
    {"CodeContentItem", "TextContentItem", "NumContentItem", "UIDRefContentItem",
     "ImageContentItem", "ContainerContentItem"}

\* The number of elements of additional_descriptors the loop of the
\* constructor passes before it ends: all of them, or those before the first
\* one that is no ContentItem.
DescriptorsPassed(additional_descriptors) ==
    LET wrong == {i \in DOMAIN additional_descriptors :
                      additional_descriptors[i].type \notin ContentItemClasses}
    IN IF wrong = {} THEN Len(additional_descriptors)
       ELSE (CHOOSE i \in wrong : \A j \in wrong : i <= j) - 1

\* Mutant: the additional descriptors are appended with the relationship
\* type they came with.
Overwritten_Kept(object) == object

\* item.RelationshipType = 'HAS ACQ CONTEXT' on an object holding one item
Overwritten(object) ==
    [object EXCEPT !.items = <<[object.items[1] EXCEPT !.rel = "HAS_ACQ_CONTEXT"]>>]

\* TID 1602: the descriptors of one image; additional_descriptors is None or
\* a list of objects.
ImageLibraryEntryDescriptors(image, additional_descriptors) ==
    LET modality == _get_coded_modality(image.SOPClassUID)
        generated ==
            <<Item("Modality", "CODE", "HAS_ACQ_CONTEXT", modality.value)>>
            \o OptItem(image.FrameOfReferenceUID, "FrameOfReferenceUID", "UIDREF",
                       "HAS_ACQ_CONTEXT")
            \o <<NumContentItem("PixelDataRows", "Rows", "{pixels}", None,
                                "HAS_ACQ_CONTEXT"),
                 NumContentItem("PixelDataColumns", "Columns", "{pixels}", None,
                                "HAS_ACQ_CONTEXT")>>
            \o (IF _is_cross_sectional(image)
                THEN _generate_cross_sectional_descriptors(image)
                ELSE IF _is_projection_radiography(image)
                THEN _generate_projection_radiography_descriptors(image)
                ELSE <<>>)
    IN
    IF modality.status # "ok" THEN modality
    ELSE IF ~does_iod_have_pixel_data(image.SOPClassUID)
    THEN Raise("ValueError", "not an image")
    ELSE IF IsNone(additional_descriptors)
    THEN Ok(generated)
    ELSE IF DescriptorsPassed(additional_descriptors.items)
                < Len(additional_descriptors.items)
    THEN Raise("TypeError", "additional_descriptors")
    ELSE Ok(generated
            \o Flatten([i \in DOMAIN additional_descriptors.items |->
                           Overwritten(additional_descriptors.items[i])]))

\* The caller's additional_descriptors after the call: the constructor
\* writes the relationship type into each object its loop passes, whether or
\* not a later element makes it raise.
AdditionalDescriptorsAfter(image, additional_descriptors) ==
    IF \/ IsNone(additional_descriptors)
       \/ _get_coded_modality(image.SOPClassUID).status # "ok"
       \/ ~does_iod_have_pixel_data(image.SOPClassUID)
    THEN additional_descriptors
    ELSE [additional_descriptors EXCEPT
             !.items = [i \in DOMAIN additional_descriptors.items |->
                           IF i <= DescriptorsPassed(additional_descriptors.items)
                           THEN Overwritten(additional_descriptors.items[i])
                           ELSE additional_descriptors.items[i]]]

\* The image item of one dataset in the library.
LibraryImageItem(ds) ==
    [Item("Source", "IMAGE", "CONTAINS", ds.SOPInstanceUID) EXCEPT
        !.content = ImageLibraryEntryDescriptors(ds, NoneV).value]

\* shared_descriptors of a dataset: the key of its group.
SharedDescriptorsOf(ds) ==
    IF ds.FrameOfReferenceUID # None
    THEN <<_get_coded_modality(ds.SOPClassUID).value, ds.FrameOfReferenceUID>>
    ELSE <<_get_coded_modality(ds.SOPClassUID).value>>

\* The keys of the dictionary of groups in the order of their insertion.
RECURSIVE SharedDescriptors(_, _)
SharedDescriptors(datasets, seen) ==
    IF datasets = <<>> THEN seen
    ELSE LET key == SharedDescriptorsOf(Head(datasets)) IN
         SharedDescriptors(Tail(datasets),
                           IF \E i \in DOMAIN seen : seen[i] = key
                           THEN seen ELSE Append(seen, key))

\* The data elements of an IMAGE content item built by ImageContentItem.
ImageContentItemElements ==
    {"ValueType", "ConceptNameCodeSequence", "RelationshipType",
     "ReferencedSOPSequence", "ContentSequence"}

\* 'FrameOfReferenceUID' in image, where image is image_items[0], the first
\* IMAGE content item of the group.
FrameOfReferenceUIDInImage(image) == "FrameOfReferenceUID" \in ImageContentItemElements

\* TID 1600: one Image Library container holding one group per key.
ImageLibrary(datasets) ==
    IF Len(datasets) = 0
    THEN Raise("ValueError", "datasets")
    ELSE IF \E i \in DOMAIN datasets :
                ImageLibraryEntryDescriptors(datasets[i], NoneV).status # "ok"
    THEN LET i == CHOOSE k \in DOMAIN datasets :
                      /\ ImageLibraryEntryDescriptors(datasets[k], NoneV).status # "ok"
                      /\ \A j \in 1..(k - 1) :
                             ImageLibraryEntryDescriptors(datasets[j], NoneV).status
                                 = "ok"
         IN ImageLibraryEntryDescriptors(datasets[i], NoneV)
    ELSE LET groups == SharedDescriptors(datasets, <<>>)
             members(key) ==
                 SelectSeq(datasets, LAMBDA ds: SharedDescriptorsOf(ds) = key)
             image_items(key) ==
                 [k \in DOMAIN members(key) |-> LibraryImageItem(members(key)[k])]
             group_item(key) ==
                 ContainerItem("ImageLibraryGroup", "CONTAINS", None,
                     (IF FrameOfReferenceUIDInImage(image_items(key)[1])
                      THEN <<Item("FrameOfReferenceUID", "UIDREF", "HAS_ACQ_CONTEXT",
                                  key[2])>>
                      ELSE <<>>)
                     \o image_items(key))
         IN Ok(Obj("ImageLibrary",
                   <<ContainerItem("ImageLibrary", "CONTAINS", None,
                                   [g \in DOMAIN groups |-> group_item(groups[g])])>>))

(***************************************************************************)
(* MeasurementReport.__init__                                              *)
(***************************************************************************)

\* Mutant: the observation context is written before the language.
RootContent_ContextFirst(language, context, procedures, library, container) ==
    context \o language \o procedures \o library \o <<container>>

\* The children of the root container in the order the constructor adds
\* them.
RootContent(language, context, procedures, library, container) ==
    language \o context \o procedures \o library \o <<container>>

\* Mutant: an empty sequence of measurement groups is accepted.
NoMeasurements_Accepted(imaging_measurements) == FALSE

\* len(imaging_measurements) == 0
NoMeasurements(imaging_measurements) == Len(imaging_measurements.items) = 0

MeasurementTypes ==
    {"PlanarROIMeasurementsAndQualitativeEvaluations",
     "VolumetricROIMeasurementsAndQualitativeEvaluations",
     "MeasurementsAndQualitativeEvaluations"}

\* MeasurementReport.__init__ with the arguments a.observation_context,
\* a.procedure_reported, a.imaging_measurements, a.title,
\* a.language_of_content_item_and_descendants, a.referenced_images.
MeasurementReportInit(a) ==
    LET title == IF IsNone(a.title) THEN CodedConcept("ImagingMeasurementReport")
                 ELSE a.title
        language ==
            IF IsNone(a.language_of_content_item_and_descendants)
            THEN LanguageOfContentItemAndDescendants(DEFAULT_LANGUAGE)
            ELSE a.language_of_content_item_and_descendants
        procedure_reported ==
            IF a.procedure_reported.type \in {"CodedConcept", "Code"}
            THEN <<a.procedure_reported>>
            ELSE a.procedure_reported.items
        procedures ==
            [i \in 1..Len(procedure_reported) |->
                Item("ProcedureReported", "CODE", "HAS_CONCEPT_MOD",
                     procedure_reported[i].value)]
        has_images == ~IsNone(a.referenced_images)
                      /\ Len(a.referenced_images.items) > 0
        image_library ==
            IF has_images THEN ImageLibrary(a.referenced_images.items)
            ELSE Ok(Obj("ImageLibrary", <<>>))
    IN
    IF title.type \notin {"CodedConcept", "Code"}
    THEN Raise("TypeError", "title")
    ELSE IF image_library.status # "ok"
    THEN image_library
    ELSE IF IsNone(a.imaging_measurements)
    THEN Raise("TypeError", "imaging_measurements is required")
    ELSE IF NoMeasurements(a.imaging_measurements)
    THEN Raise("ValueError", "imaging_measurements is empty")
    ELSE IF ~AllOfType(a.imaging_measurements.items, MeasurementTypes)
    THEN Raise("TypeError", "imaging_measurements items")
    ELSE LET container_item ==
                 ContainerItem("ImagingMeasurements", "CONTAINS", None,
                               Flatten(a.imaging_measurements.items))
             item ==
                 ContainerItem(title.value, None, "1500",
                               RootContent(language.items,
                                           a.observation_context.items,
                                           procedures,
                                           image_library.value.items,
                                           container_item))
         IN Ok([is_root |-> TRUE, items |-> <<item>>])

\* MeasurementReport.from_sequence
ReportFromSequence(sequence) ==
    IF Len(sequence) = 0
    THEN Raise("ValueError", "no items")
    ELSE IF Len(sequence) > 1
    THEN Raise("ValueError", "more than one item")
    ELSE IF sequence[1].vt # "CONTAINER"
    THEN Raise("ValueError", "not CONTAINER")
    ELSE IF sequence[1].tid = None
    THEN Raise("AttributeError", "ContentTemplateSequence")
    ELSE IF sequence[1].tid # "1500"
    THEN Raise("ValueError", "not 1500")
    ELSE Ok([is_root |-> TRUE, items |-> sequence])

\* Mutant: the search starts behind the first group.
_find_measurement_groups_SkipFirst(self) ==
    LET containers == find_content_items(self.items[1], "ImagingMeasurements",
                                         "CONTAINER", None)
    IN IF Len(containers) = 0 THEN <<>>
       ELSE Tail(find_content_items(containers[1], "MeasurementGroup",
                                    "CONTAINER", None))

\* MeasurementReport._find_measurement_groups
_find_measurement_groups(self) ==
    LET root_item == self.items[1]
        imaging_measurement_items ==
            find_content_items(root_item, "ImagingMeasurements", "CONTAINER", None)
    IN IF Len(imaging_measurement_items) = 0
       THEN <<>>
       ELSE find_content_items(imaging_measurement_items[1], "MeasurementGroup",
                               "CONTAINER", None)

(***************************************************************************)
(* The measurement-group getters of MeasurementReport                      *)
(***************************************************************************)

_contains_code_items(parent_item, name, value, relationship_type) ==
    LET matched_items == find_content_items(parent_item, name, "CODE",
                                            relationship_type)
    IN \E i \in DOMAIN matched_items :
           value = None \/ matched_items[i].val = value

_contains_uidref_items(parent_item, name, value, relationship_type) ==
    LET matched_items == find_content_items(parent_item, name, "UIDREF",
                                            relationship_type)
    IN \E i \in DOMAIN matched_items :
           value = None \/ matched_items[i].val = value

\* The SOP class of a referenced instance (IMAGE and COMPOSITE items hold
\* the SOP instance UID as their value).
referenced_sop_class_uid(item) ==
    CASE item.val \in {"seg1", "s1", "f1"} -> "SegmentationStorage"
      [] item.val \in {"img2"} -> "MRImageStorage"
      [] item.val \in {"c1"} -> "RTStructureSetStorage"
      [] OTHER -> "CTImageStorage"

\* The IMAGE or COMPOSITE item references the given class and instance.
MatchesSOP(item, sop_class_uid, sop_instance_uid) ==
    /\ sop_class_uid = None \/ referenced_sop_class_uid(item) = sop_class_uid
    /\ sop_instance_uid = None \/ item.val = sop_instance_uid

_contains_image_items(parent_item, name, sop_class_uid, sop_instance_uid, relationship_type) ==
    LET matched_items == find_content_items(parent_item, name, "IMAGE",
                                            relationship_type)
    IN \E i \in DOMAIN matched_items :
           MatchesSOP(matched_items[i], sop_class_uid, sop_instance_uid)

\* _MeasurementsAndQualitativeEvaluations.from_sequence
GroupFromSequence(sequence) ==
    IF Len(sequence) > 1
    THEN Raise("ValueError", "more than one item")
    ELSE IF sequence[1].vt # "CONTAINER"
    THEN Raise("ValueError", "not CONTAINER")
    ELSE IF sequence[1].name # "MeasurementGroup"
    THEN Raise("ValueError", "not Measurement Group")
    ELSE Ok(sequence)

\* Mutant: the template identifier of a group is ignored.
TemplateSelects_HeuristicOnly(group_item, template_id, heuristic) == heuristic

\* Whether a getter goes on with a group: by the template identifier when
\* the group carries one, by the heuristic otherwise.
TemplateSelects(group_item, template_id, heuristic) ==
    IF group_item.tid # None
    THEN group_item.tid = template_id
    ELSE heuristic

\* Mutant: one matching filter is enough.
AllMatch_Any(matches) ==
    Len(matches) = 0 \/ \E i \in DOMAIN matches : matches[i]

\* len(matches) == 0 or all(matches)
AllMatch(matches) ==
    Len(matches) = 0 \/ \A i \in DOMAIN matches : matches[i]

\* The entries of matches for finding_type, finding_site and tracking_uid.
CommonMatches(group_item, f) ==
    (IF f.finding_type # None
     THEN <<_contains_code_items(group_item, "Finding", f.finding_type, "CONTAINS")>>
     ELSE <<>>)
    \o (IF f.finding_site # None
        THEN <<_contains_code_items(group_item, "FindingSite", f.finding_site,
                                    "HAS_CONCEPT_MOD")>>
        ELSE <<>>)
    \o (IF f.tracking_uid # None
        THEN <<_contains_uidref_items(group_item, "TrackingUniqueIdentifier",
                                      f.tracking_uid, "HAS_OBS_CONTEXT")>>
        ELSE <<>>)

\* A filter on the ROI reference itself was supplied.
ReferenceFiltered(f) ==
    \/ f.reference_type # None
    \/ ~IsNone(f.graphic_type)
    \/ f.referenced_sop_class_uid # None
    \/ f.referenced_sop_instance_uid # None

\* The entries of matches for reference_type and graphic_type, given the
\* reference type found and the (first) reference item.
ReferenceMatches(f, found_ref_type, ref_item) ==
    (IF f.reference_type # None
     THEN <<found_ref_type = f.reference_type>>
     ELSE <<>>)
    \o (IF ~IsNone(f.graphic_type)
        THEN IF f.graphic_type.type = "GraphicTypeValues"
             THEN <<ref_item.vt = "SCOORD" /\ ref_item.val = f.graphic_type.value>>
             ELSE <<ref_item.vt = "SCOORD3D" /\ ref_item.val = f.graphic_type.value>>
        ELSE <<>>)

\* The entry of matches for the referenced SOP class and instance UID: the
\* reference item itself when it is an IMAGE or COMPOSITE item, the source
\* image of a 2D image region, the source image for segmentation of the
\* group.
UidMatches(group_item, f, found_ref_type, ref_items, direct, segment) ==
    IF f.referenced_sop_instance_uid # None \/ f.referenced_sop_class_uid # None
    THEN << \/ /\ found_ref_type \in direct
               /\ MatchesSOP(ref_items[1], f.referenced_sop_class_uid,
                             f.referenced_sop_instance_uid)
            \/ /\ found_ref_type = "ImageRegion"
               /\ \E i \in DOMAIN ref_items :
                      /\ ref_items[i].vt = "SCOORD"
                      /\ _contains_image_items(ref_items[i], None,
                                               f.referenced_sop_class_uid,
                                               f.referenced_sop_instance_uid,
                                               "SELECTED_FROM")
            \/ /\ found_ref_type = segment
               /\ _contains_image_items(group_item, "SourceImageForSegmentation",
                                        f.referenced_sop_class_uid,
                                        f.referenced_sop_instance_uid,
                                        "CONTAINS") >>
    ELSE <<>>

\* The checks of get_planar_roi_measurement_groups on its arguments.
PlanarArguments(f) ==
    LET gt == f.graphic_type IN
    IF ~IsNone(gt) /\ gt.type \notin {"GraphicTypeValues", "GraphicTypeValues3D"}
    THEN Raise("TypeError", "graphic_type")
    ELSE IF gt.type = "GraphicTypeValues" /\ gt.value = "MULTIPOINT"
    THEN Raise("ValueError", "graphic_type 2D")
    ELSE IF /\ gt.type = "GraphicTypeValues3D"
            /\ gt.value \in {"MULTIPOINT", "POLYLINE", "ELLIPSOID"}
    THEN Raise("ValueError", "graphic_type 3D")
    ELSE IF /\ gt.type = "GraphicTypeValues3D"
            /\ \/ f.referenced_sop_class_uid # None
               \/ f.referenced_sop_instance_uid # None
    THEN Raise("TypeError", "graphic_type 3D with referenced UIDs")
    ELSE IF f.reference_type # None /\ f.reference_type \notin PlanarAllowed
    THEN Raise("ValueError", "reference_type")
    ELSE IF /\ f.reference_type # None
            /\ ~IsNone(gt)
            /\ f.reference_type # "ImageRegion"
    THEN Raise("ValueError", "graphic_type with reference_type")
    ELSE Ok(None)

\* The loop of get_planar_roi_measurement_groups from group i on.
RECURSIVE PlanarLoop(_, _, _, _)
PlanarLoop(measurement_group_items, i, f, sequences) ==
    IF i > Len(measurement_group_items) THEN Ok(sequences)
    ELSE LET group_item == measurement_group_items[i]
             ref == _get_planar_roi_reference_item(group_item)
         IN
         IF ~TemplateSelects(group_item, "1410",
                             _contains_planar_rois(group_item).value)
         THEN PlanarLoop(measurement_group_items, i + 1, f, sequences)
         ELSE IF ReferenceFiltered(f) /\ ref.status # "ok"
         THEN ref
         ELSE LET matches ==
                      CommonMatches(group_item, f)
                      \o (IF ReferenceFiltered(f)
                          THEN ReferenceMatches(f, ref.value[1], ref.value[2])
                               \o UidMatches(group_item, f, ref.value[1],
                                             <<ref.value[2]>>,
                                             {"ReferencedSegmentationFrame",
                                              "RegionInSpace"},
                                             "ReferencedSegmentationFrame")
                          ELSE <<>>)
              IN IF AllMatch(matches)
                 THEN PlanarLoop(measurement_group_items, i + 1, f,
                                 Append(sequences,
                                        GroupFromSequence(<<group_item>>).value))
                 ELSE PlanarLoop(measurement_group_items, i + 1, f, sequences)

get_planar_roi_measurement_groups(self, f) ==
    IF PlanarArguments(f).status # "ok"
    THEN PlanarArguments(f)
    ELSE PlanarLoop(_find_measurement_groups(self), 1, f, <<>>)

\* The checks of get_volumetric_roi_measurement_groups on its arguments.
VolumetricArguments(f) ==
    LET gt == f.graphic_type IN
    IF ~IsNone(gt) /\ gt.type \notin {"GraphicTypeValues", "GraphicTypeValues3D"}
    THEN Raise("TypeError", "graphic_type")
    ELSE IF gt.type = "GraphicTypeValues" /\ gt.value = "MULTIPOINT"
    THEN Raise("ValueError", "graphic_type 2D")
    ELSE IF /\ gt.type = "GraphicTypeValues3D"
            /\ gt.value \in {"MULTIPOINT", "POLYLINE"}
    THEN Raise("ValueError", "graphic_type 3D")
    ELSE IF /\ gt.type = "GraphicTypeValues3D"
            /\ \/ f.referenced_sop_class_uid # None
               \/ f.referenced_sop_instance_uid # None
    THEN Raise("TypeError", "graphic_type 3D with referenced UIDs")
    ELSE IF f.reference_type # None /\ f.reference_type \notin VolumetricAllowed
    THEN Raise("ValueError", "reference_type")
    ELSE IF /\ f.reference_type # None
            /\ ~IsNone(gt)
            /\ f.reference_type \notin {"ImageRegion", "VolumeSurface"}
    THEN Raise("ValueError", "graphic_type with reference_type")
    ELSE IF /\ f.reference_type = "ImageRegion"
            /\ gt.type = "GraphicTypeValues3D"
    THEN Raise("TypeError", "Image Region with a 3D graphic type")
    ELSE IF /\ f.reference_type = "VolumeSurface"
            /\ gt.type = "GraphicTypeValues"
    THEN Raise("TypeError", "Volume Surface with a 2D graphic type")
    ELSE Ok(None)

\* The loop of get_volumetric_roi_measurement_groups from group i on.
RECURSIVE VolumetricLoop(_, _, _, _)
VolumetricLoop(measurement_group_items, i, f, sequences) ==
    IF i > Len(measurement_group_items) THEN Ok(sequences)
    ELSE LET group_item == measurement_group_items[i]
             ref == _get_volumetric_roi_reference_items(group_item)
         IN
         IF ~TemplateSelects(group_item, "1411",
                             _contains_volumetric_rois(group_item).value)
         THEN VolumetricLoop(measurement_group_items, i + 1, f, sequences)
         ELSE IF ReferenceFiltered(f) /\ ref.status # "ok"
         THEN ref
         ELSE LET matches ==
                      CommonMatches(group_item, f)
                      \o (IF ReferenceFiltered(f)
                          THEN ReferenceMatches(f, ref.value[1], ref.value[2][1])
                               \o UidMatches(group_item, f, ref.value[1],
                                             ref.value[2],
                                             {"ReferencedSegment", "RegionInSpace"},
                                             "ReferencedSegment")
                          ELSE <<>>)
              IN IF AllMatch(matches)
                 THEN VolumetricLoop(measurement_group_items, i + 1, f,
                                     Append(sequences,
                                            GroupFromSequence(<<group_item>>).value))
                 ELSE VolumetricLoop(measurement_group_items, i + 1, f, sequences)

get_volumetric_roi_measurement_groups(self, f) ==
    IF VolumetricArguments(f).status # "ok"
    THEN VolumetricArguments(f)
    ELSE VolumetricLoop(_find_measurement_groups(self), 1, f, <<>>)

\* The loop of get_image_measurement_groups from group i on.
RECURSIVE ImageLoop(_, _, _, _)
ImageLoop(measurement_group_items, i, f, sequences) ==
    IF i > Len(measurement_group_items) THEN Ok(sequences)
    ELSE LET group_item == measurement_group_items[i]
             contains_rois == \/ _contains_planar_rois(group_item).value
                              \/ _contains_volumetric_rois(group_item).value
             matches ==
                 CommonMatches(group_item, f)
                 \o (IF \/ f.referenced_sop_instance_uid # None
                        \/ f.referenced_sop_class_uid # None
                     THEN <<_contains_image_items(group_item, "Source",
                                                  f.referenced_sop_class_uid,
                                                  f.referenced_sop_instance_uid,
                                                  "CONTAINS")>>
                     ELSE <<>>)
             seq == GroupFromSequence(<<group_item>>)
         IN
         IF ~TemplateSelects(group_item, "1501", ~contains_rois)
         THEN ImageLoop(measurement_group_items, i + 1, f, sequences)
         ELSE IF AllMatch(matches)
         THEN ImageLoop(measurement_group_items, i + 1, f,
                        Append(sequences, seq.value))
         ELSE ImageLoop(measurement_group_items, i + 1, f, sequences)

get_image_measurement_groups(self, f) ==
    ImageLoop(_find_measurement_groups(self), 1, f, <<>>)

(***************************************************************************)
(* SpecReport: the Measurement Report constructor applied to arguments     *)
(* drawn from small sets.                                                  *)
(***************************************************************************)

MaxGroups == 2    \* measurement groups of a report

PersonContext ==
    ObserverContext("Person",
                    PersonObserverIdentifyingAttributes("Doe^John", "jdoe", None, None,
                                                        None)).value

DeviceContext ==
    ObserverContext("Device",
                    DeviceObserverIdentifyingAttributes("1.2.9", None, None, None, None,
                                                        None, None)).value

FetusContext == SubjectContext("Fetus", SubjectContextFetus("fetus-1")).value

ObservationContextArgs ==
    { ObservationContext(NoneV, NoneV, NoneV).value,
      ObservationContext(PersonContext, NoneV, NoneV).value,
      ObservationContext(PersonContext, DeviceContext, FetusContext).value }

ProcedureReportedArgs ==
    { CodedConcept("P1"),
      List(<<>>),
      List(<<CodedConcept("P1")>>),
      List(<<CodedConcept("P1"), CodedConcept("P2")>>),
      List(<<CodedConcept("P2"), CodedConcept("P1")>>) }

TitleArgs == { NoneV, CodedConcept("Title1"), Stranger }

LanguageArgs == { NoneV, LanguageOfContentItemAndDescendants("RFC5646:fr-CA") }

ReferencedImagesArgs ==
    { NoneV,
      List(<<>>),
      List(<<Dataset("img1", "CTImageStorage", "CT", None)>>),
      List(<<Dataset("img1", "CTImageStorage", "CT", None),
             Dataset("img2", "MRImageStorage", "MR", None),
             Dataset("img3", "CTImageStorage", "CT", None)>>),
      List(<<Dataset("img1", "CTImageStorage", "CT", None),
             Dataset("raw1", "RawDataStorage", "OT", None)>>),
      List(<<Dataset("sr1", "ComprehensiveSRStorage", "SR", None)>>) }

\* Measurement groups as the group constructors build them.
PlanarGroup1 ==
    PlanarInit([DefaultArgs EXCEPT
                   !.finding_type = "F1",
                   !.referenced_region = ImageRegion("POLYLINE", "img1")]).value

PlanarGroup2 ==
    PlanarInit([DefaultArgs EXCEPT
                   !.tracking_identifier = TrackingIdentifier("1.2.4", "lesion-2"),
                   !.finding_type = "F2",
                   !.finding_sites = List(<<FindingSite("S1")>>),
                   !.referenced_segment =
                       ReferencedSegmentationFrame("seg1", "img1")]).value

VolumetricGroup1 ==
    VolumetricInit([DefaultArgs EXCEPT
                       !.finding_type = "F1",
                       !.finding_sites = List(<<FindingSite("S1")>>),
                       !.referenced_regions =
                           List(<<ImageRegion("POLYLINE", "img1"),
                                  ImageRegion("CIRCLE", "img2")>>)]).value

ImageGroup1 ==
    MQEInit([DefaultArgs EXCEPT
                !.tracking_identifier = TrackingIdentifier("1.2.4", "image-1"),
                !.finding_type = "F1",
                !.source_images =
                    List(<<Obj("SourceImageForMeasurementGroup",
                               <<SourceImage("Source", "CONTAINS", "img1")>>),
                           Obj("SourceImageForMeasurementGroup",
                               <<SourceImage("Source", "CONTAINS", "seg1")>>)>>)]).value

ImagingMeasurementsElements ==
    { Obj("PlanarROIMeasurementsAndQualitativeEvaluations", PlanarGroup1),
      Obj("VolumetricROIMeasurementsAndQualitativeEvaluations", VolumetricGroup1),
      Obj("MeasurementsAndQualitativeEvaluations", ImageGroup1),
      Stranger }

ImagingMeasurementsArgs ==
    {NoneV} \cup {List(ms) : ms \in SeqsUpTo(ImagingMeasurementsElements, MaxGroups)}

InitReport ==
    /\ group = ContainerItem("MeasurementGroup", "CONTAINS", None, <<>>)
    /\ report = NoReport
    /\ last = NoCall

\* One call of the constructor; the report exists when it returns.
ConstructReport ==
    /\ last.op = "none"
    /\ \E oc \in ObservationContextArgs, pr \in ProcedureReportedArgs,
          im \in ImagingMeasurementsArgs, t \in TitleArgs, l \in LanguageArgs,
          ri \in ReferencedImagesArgs :
           LET a == [observation_context |-> oc,
                     procedure_reported |-> pr,
                     imaging_measurements |-> im,
                     title |-> t,
                     language_of_content_item_and_descendants |-> l,
                     referenced_images |-> ri]
               result == MeasurementReportInit(a)
           IN /\ last' = [op |-> "MeasurementReport", args |-> a, result |-> result]
              /\ report' = IF result.status = "ok" THEN result.value ELSE report
              /\ UNCHANGED group

\* _find_measurement_groups on the report just constructed; the record of
\* the call keeps the constructor's arguments.
FindMeasurementGroups ==
    /\ last.op = "MeasurementReport"
    /\ report # NoReport
    /\ last' = [op |-> "_find_measurement_groups", args |-> last.args,
                result |-> Ok(_find_measurement_groups(report))]
    /\ UNCHANGED <<group, report>>

NextReport ==
    \/ ConstructReport
    \/ FindMeasurementGroups

SpecReport == InitReport /\ [][NextReport]_vars

(***************************************************************************)
(* SpecQuery: a report read from a document (MeasurementReport.            *)
(* from_sequence), whose groups need not come from the constructors, and   *)
(* the measurement-group getters applied to it.                            *)
(***************************************************************************)

ParsedGroup(tid, content) == ContainerItem("MeasurementGroup", "CONTAINS", tid, content)

\* The measurement groups a document may hold: groups as constructed, groups
\* without a template identifier (one of them with two referenced
\* segmentation frames), and groups whose template identifier disagrees with
\* their content.
GroupPool ==
    { PlanarGroup1[1], PlanarGroup2[1], VolumetricGroup1[1], ImageGroup1[1],
      ParsedGroup(None,
                  TrackingIdentifier("1.2.4", None).items
                  \o <<Item("Finding", "CODE", "CONTAINS", "F1")>>
                  \o ImageRegion("POLYLINE", "img2").items),
      ParsedGroup(None,
                  TrackingIdentifier("1.2.3", None).items
                  \o VolumeSurface("ELLIPSOID", "img1").items),
      ParsedGroup(None,
                  TrackingIdentifier("1.2.3", None).items
                  \o <<Item("Finding", "CODE", "CONTAINS", "F1"),
                       SourceImage("Source", "CONTAINS", "img1")>>),
      ParsedGroup("1410", VolumetricGroup1[1].content),
      ParsedGroup(None,
                  <<Item("Finding", "CODE", "CONTAINS", "F1"),
                    Item("RegionInSpace", "COMPOSITE", "CONTAINS", "c1")>>),
      ParsedGroup(None,
                  TrackingIdentifier("1.2.3", None).items
                  \o <<SourceImage("ReferencedSegmentationFrame", "CONTAINS", "seg1"),
                       SourceImage("ReferencedSegmentationFrame", "CONTAINS", "seg2"),
                       SourceImage("SourceImageForSegmentation", "CONTAINS",
                                   "img1")>>) }

Root(tid, content) == ContainerItem("ImagingMeasurementReport", None, tid, content)

ImagingMeasurements(groups) ==
    ContainerItem("ImagingMeasurements", "CONTAINS", None, groups)

LanguageItems == LanguageOfContentItemAndDescendants(DEFAULT_LANGUAGE).items

\* The sequences handed to from_sequence: well-formed roots with up to
\* MaxGroups groups, a root without an Imaging Measurements container, a root
\* with two of them, and the sequences from_sequence rejects.
ParsedSequences ==
    { <<Root("1500", LanguageItems \o <<ImagingMeasurements(gs)>>)>> :
          gs \in SeqsUpTo(GroupPool, MaxGroups) }
    \cup { <<Root("1500", LanguageItems)>>,
           <<Root("1500", <<ImagingMeasurements(<<PlanarGroup1[1]>>),
                            ImagingMeasurements(<<VolumetricGroup1[1]>>)>>)>>,
           <<>>,
           <<Root("1500", LanguageItems), Root("1500", LanguageItems)>>,
           <<[Root("1500", LanguageItems) EXCEPT !.vt = "TEXT"]>>,
           <<Root(None, LanguageItems)>>,
           <<Root("1410", LanguageItems)>> }

GraphicTypeArgs ==
    { NoEnum,
      Enum("GraphicTypeValues", "POLYLINE"),
      Enum("GraphicTypeValues", "MULTIPOINT"),
      Enum("GraphicTypeValues3D", "POLYGON"),
      Enum("GraphicTypeValues3D", "ELLIPSOID"),
      Enum("str", "POLYLINE") }

ReferenceTypeArgs ==
    { None, "ImageRegion", "ReferencedSegmentationFrame", "ReferencedSegment",
      "VolumeSurface" }

\* The filters of the ROI getters.
RoiFilters ==
    [tracking_uid : {None, "1.2.3"},
     finding_type : {None, "F1"},
     finding_site : {None, "S1"},
     reference_type : ReferenceTypeArgs,
     graphic_type : GraphicTypeArgs,
     referenced_sop_instance_uid : {None, "img1", "seg1"},
     referenced_sop_class_uid : {None, "CTImageStorage"}]

\* The filters of get_image_measurement_groups, which takes no reference
\* type and no graphic type.
ImageFilters ==
    {f \in RoiFilters : f.reference_type = None /\ IsNone(f.graphic_type)}

InitQuery ==
    /\ group = ContainerItem("MeasurementGroup", "CONTAINS", None, <<>>)
    /\ report = NoReport
    /\ last = NoCall

FromSequence ==
    /\ last.op = "none"
    /\ \E sequence \in ParsedSequences :
           LET result == ReportFromSequence(sequence) IN
           /\ last' = [op |-> "from_sequence", args |-> sequence, result |-> result]
           /\ report' = IF result.status = "ok" THEN result.value ELSE report
           /\ UNCHANGED group

\* The getters leave the report as it is, so a behaviour asks once.
Asked(op, f, result) ==
    /\ last' = [op |-> op, args |-> f, result |-> result]
    /\ UNCHANGED <<group, report>>

GetPlanarRoiMeasurementGroups ==
    /\ last.op = "from_sequence"
    /\ report # NoReport
    /\ \E f \in RoiFilters :
           Asked("get_planar_roi_measurement_groups", f,
                 get_planar_roi_measurement_groups(report, f))

GetVolumetricRoiMeasurementGroups ==
    /\ last.op = "from_sequence"
    /\ report # NoReport
    /\ \E f \in RoiFilters :
           Asked("get_volumetric_roi_measurement_groups", f,
                 get_volumetric_roi_measurement_groups(report, f))

GetImageMeasurementGroups ==
    /\ last.op = "from_sequence"
    /\ report # NoReport
    /\ \E f \in ImageFilters :
           Asked("get_image_measurement_groups", f,
                 get_image_measurement_groups(report, f))

NextQuery ==
    \/ FromSequence
    \/ GetPlanarRoiMeasurementGroups
    \/ GetVolumetricRoiMeasurementGroups
    \/ GetImageMeasurementGroups

SpecQuery == InitQuery /\ [][NextQuery]_vars

(***************************************************************************)
(* Observation context templates: parsing, cross-checks and the context    *)
(* getters of the report                                                   *)
(***************************************************************************)

MaxChildren == 3    \* children of the root container of a parsed report

\* kwargs[param] of the from_sequence class methods: the value of the last
\* item of the sequence bearing the concept name, None when no item bears it
\* (the parameter is then left to the constructor's default).
KeywordArgument(sequence, name) ==
    LET matches == {i \in DOMAIN sequence : sequence[i].name = name}
    IN IF matches = {} THEN None
       ELSE sequence[CHOOSE i \in matches : \A j \in matches : j <= i].val

\* PersonObserverIdentifyingAttributes.from_sequence; cls(**kwargs) is a
\* TypeError when the required argument is missing.
PersonObserverIdentifyingAttributes_from_sequence(sequence) ==
    LET kwargs(name) == KeywordArgument(sequence, name) IN
    IF kwargs("PersonObserverName") = None
    THEN Raise("TypeError", "name")
    ELSE Ok(PersonObserverIdentifyingAttributes(
                kwargs("PersonObserverName"),
                kwargs("PersonObserverLoginName"),
                kwargs("PersonObserverOrganizationName"),
                kwargs("PersonObserverRoleInTheOrganization"),
                kwargs("PersonObserverRoleInThisProcedure")))

\* DeviceObserverIdentifyingAttributes.from_sequence: attr_codes has no entry
\* for role_in_procedure.
DeviceObserverIdentifyingAttributes_from_sequence(sequence) ==
    LET kwargs(name) == KeywordArgument(sequence, name) IN
    IF kwargs("DeviceObserverUID") = None
    THEN Raise("TypeError", "uid")
    ELSE Ok(DeviceObserverIdentifyingAttributes(
                kwargs("DeviceObserverUID"),
                kwargs("DeviceObserverName"),
                kwargs("DeviceObserverManufacturer"),
                kwargs("DeviceObserverModelName"),
                kwargs("DeviceObserverSerialNumber"),
                kwargs("DeviceObserverPhysicalLocationDuringObservation"),
                None))

\* SubjectContextFetus.from_sequence
SubjectContextFetus_from_sequence(sequence) ==
    IF KeywordArgument(sequence, "SubjectID") = None
    THEN Raise("TypeError", "subject_id")
    ELSE Ok(SubjectContextFetus(KeywordArgument(sequence, "SubjectID")))

\* TID 1009
SubjectContextSpecimen(uid, identifier, container_identifier, specimen_type) ==
    Obj("SubjectContextSpecimen",
        <<Item("SpecimenUID", "UIDREF", "HAS_OBS_CONTEXT", uid)>>
        \o OptItem(identifier, "SpecimenIdentifier", "TEXT", "HAS_OBS_CONTEXT")
        \o OptItem(specimen_type, "SpecimenType", "CODE", "HAS_OBS_CONTEXT")
        \o OptItem(container_identifier, "SpecimenContainerIdentifier", "TEXT",
                   "HAS_OBS_CONTEXT"))

\* SubjectContextSpecimen.from_sequence
SubjectContextSpecimen_from_sequence(sequence) ==
    LET kwargs(name) == KeywordArgument(sequence, name) IN
    IF kwargs("SpecimenUID") = None
    THEN Raise("TypeError", "uid")
    ELSE Ok(SubjectContextSpecimen(kwargs("SpecimenUID"),
                                   kwargs("SpecimenIdentifier"),
                                   kwargs("SpecimenContainerIdentifier"),
                                   kwargs("SpecimenType")))

\* TID 1010
SubjectContextDevice(name, uid, manufacturer_name, model_name, serial_number, physical_location) ==
    Obj("SubjectContextDevice",
        <<Item("DeviceSubjectName", "TEXT", "HAS_OBS_CONTEXT", name)>>
        \o OptItem(uid, "DeviceSubjectUID", "UIDREF", "HAS_OBS_CONTEXT")
        \o OptItem(manufacturer_name, "DeviceSubjectManufacturer", "TEXT",
                   "HAS_OBS_CONTEXT")
        \o OptItem(model_name, "DeviceSubjectModelName", "TEXT", "HAS_OBS_CONTEXT")
        \o OptItem(serial_number, "DeviceSubjectSerialNumber", "TEXT",
                   "HAS_OBS_CONTEXT")
        \o OptItem(physical_location,
                   "DeviceSubjectPhysicalLocationDuringObservation", "TEXT",
                   "HAS_OBS_CONTEXT"))

\* SubjectContextDevice.from_sequence
SubjectContextDevice_from_sequence(sequence) ==
    LET kwargs(name) == KeywordArgument(sequence, name) IN
    IF kwargs("DeviceSubjectName") = None
    THEN Raise("TypeError", "name")
    ELSE Ok(SubjectContextDevice(
                kwargs("DeviceSubjectName"),
                kwargs("DeviceSubjectUID"),
                kwargs("DeviceSubjectManufacturer"),
                kwargs("DeviceSubjectModelName"),
                kwargs("DeviceSubjectSerialNumber"),
                kwargs("DeviceSubjectPhysicalLocationDuringObservation")))

\* sequence[start:stop] of Python: positions counted from 0, stop excluded,
\* a negative stop counted from the end.
Slice(sequence, start, stop) ==
    LET end == IF stop < 0
               THEN (IF Len(sequence) + stop < 0 THEN 0 ELSE Len(sequence) + stop)
               ELSE (IF stop > Len(sequence) THEN Len(sequence) ELSE stop)
    IN SubSeq(sequence, start + 1, end)

\* matches of the context getters: the positions, counted from 1, of the
\* marker items in the content of the root container.
Markers(content, name) ==
    SelectSeq([i \in 1..Len(content) |-> i], LAMBDA i : content[i].name = name)

\* next_index of the context getters: the position of the next marker, -1
\* for the last marker.
NextIndex(content, matches, i) ==
    IF i + 1 <= Len(matches) THEN matches[i + 1] ELSE -1

RECURSIVE ObserverLoop(_, _, _, _)
ObserverLoop(content, matches, i, observer_type) ==
    IF i > Len(matches) THEN Ok(<<>>)
    ELSE
    LET index == matches[i]
        item == content[index]
        sequence == Slice(content, index, NextIndex(content, matches, i))
        attributes ==
            IF item.val = "Device"
            THEN DeviceObserverIdentifyingAttributes_from_sequence(sequence)
            ELSE IF item.val = "Person"
            THEN PersonObserverIdentifyingAttributes_from_sequence(sequence)
            ELSE Raise("ValueError", "observer type")
        context == ObserverContext(item.val, attributes.value)
        rest == ObserverLoop(content, matches, i + 1, observer_type)
    IN IF observer_type # None /\ item.val # observer_type THEN rest
       ELSE IF attributes.status # "ok" THEN attributes
       ELSE IF context.status # "ok" THEN context
       ELSE IF rest.status # "ok" THEN rest
       ELSE Ok(<<context.value>> \o rest.value)

\* MeasurementReport.get_observer_contexts
get_observer_contexts(self, observer_type) ==
    LET content == self.items[1].content
    IN ObserverLoop(content, Markers(content, "ObserverType"), 1, observer_type)

RECURSIVE SubjectLoop(_, _, _, _)
SubjectLoop(content, matches, i, subject_class) ==
    IF i > Len(matches) THEN Ok(<<>>)
    ELSE
    LET index == matches[i]
        item == content[index]
        sequence == Slice(content, index, NextIndex(content, matches, i))
        attributes ==
            IF item.val = "Specimen"
            THEN SubjectContextSpecimen_from_sequence(sequence)
            ELSE IF item.val = "Fetus"
            THEN SubjectContextFetus_from_sequence(sequence)
            ELSE IF item.val = "Device"
            THEN SubjectContextDevice_from_sequence(sequence)
            ELSE Raise("ValueError", "subject class")
        context == SubjectContext(item.val, attributes.value)
        rest == SubjectLoop(content, matches, i + 1, subject_class)
    IN IF subject_class # None /\ item.val # subject_class THEN rest
       ELSE IF attributes.status # "ok" THEN attributes
       ELSE IF context.status # "ok" THEN context
       ELSE IF rest.status # "ok" THEN rest
       ELSE Ok(<<context.value>> \o rest.value)

\* MeasurementReport.get_subject_contexts
get_subject_contexts(self, subject_class) ==
    LET content == self.items[1].content
    IN SubjectLoop(content, Markers(content, "SubjectClass"), 1, subject_class)

\* An image dataset: attrs are the attributes it carries (hasattr).
Image(attrs, ContainerIdentifier, SpecimenDescriptionSequence) ==
    [type |-> "Dataset", items |-> <<>>, attrs |-> attrs,
     ContainerIdentifier |-> ContainerIdentifier,
     SpecimenDescriptionSequence |-> SpecimenDescriptionSequence]

\* An item of the Specimen Description Sequence of an image.
SpecimenDescription(attrs, SpecimenIdentifier, SpecimenUID, SpecimenType) ==
    [attrs |-> attrs, SpecimenIdentifier |-> SpecimenIdentifier,
     SpecimenUID |-> SpecimenUID,
     SpecimenTypeCodeSequence |-> <<SpecimenType>>]

\* SubjectContextSpecimen.from_image: reading an attribute the dataset does
\* not carry is an AttributeError, the first item of an empty sequence an
\* IndexError.
SubjectContextSpecimen_from_image(image) ==
    IF "ContainerIdentifier" \notin image.attrs
    THEN Raise("ValueError", "no specimen information")
    ELSE IF "SpecimenDescriptionSequence" \notin image.attrs
    THEN Raise("AttributeError", "SpecimenDescriptionSequence")
    ELSE IF Len(image.SpecimenDescriptionSequence) = 0
    THEN Raise("IndexError", "SpecimenDescriptionSequence")
    ELSE
    LET description == image.SpecimenDescriptionSequence[1]
        specimen_type ==
            IF "SpecimenTypeCodeSequence" \in description.attrs
            THEN description.SpecimenTypeCodeSequence[1]
            ELSE None
    IN IF "SpecimenIdentifier" \notin description.attrs
       THEN Raise("AttributeError", "SpecimenIdentifier")
       ELSE IF "SpecimenUID" \notin description.attrs
       THEN Raise("AttributeError", "SpecimenUID")
       ELSE Ok(SubjectContextSpecimen(description.SpecimenUID,
                                      description.SpecimenIdentifier,
                                      image.ContainerIdentifier,
                                      specimen_type))

\* SubjectContext.from_image: only a ValueError of the specimen lookup is
\* caught.
SubjectContext_from_image(image) ==
    LET subject_context_specimen == SubjectContextSpecimen_from_image(image) IN
    IF subject_context_specimen.status = "ValueError" THEN Ok(NoneV)
    ELSE IF subject_context_specimen.status # "ok" THEN subject_context_specimen
    ELSE SubjectContext("Specimen", subject_context_specimen.value)

(***************************************************************************)
(* SpecContext: the context templates are constructed, parsed back and     *)
(* cross-checked; a parsed report is asked for its contexts                *)
(***************************************************************************)

Optional(v) == {None, v}

PersonAttributesArgs ==
    [name : {"Doe^John"}, login_name : Optional("jdoe"),
     organization_name : Optional("Clinic"),
     role_in_organization : Optional("Radiologist"),
     role_in_procedure : Optional("Performing")]

DeviceAttributesArgs ==
    [uid : {"1.2.9"}, name : Optional("Scanner"),
     manufacturer_name : Optional("Acme"), model_name : Optional("M1"),
     serial_number : Optional("SN1"), physical_location : Optional("Room 1"),
     role_in_procedure : Optional("Recording")]

SpecimenArgs ==
    [uid : {"1.2.7"}, identifier : Optional("S1"),
     container_identifier : Optional("C1"), specimen_type : Optional("Tissue")]

SubjectDeviceArgs ==
    [name : {"Phantom"}, uid : Optional("1.2.8"),
     manufacturer_name : Optional("Acme"), model_name : Optional("M1"),
     serial_number : Optional("SN1"), physical_location : Optional("Room 1")]

\* cls.from_sequence(sequence) of the five context templates
Template_from_sequence(cls, sequence) ==
    CASE cls = "PersonObserverIdentifyingAttributes" ->
             PersonObserverIdentifyingAttributes_from_sequence(sequence)
      [] cls = "DeviceObserverIdentifyingAttributes" ->
             DeviceObserverIdentifyingAttributes_from_sequence(sequence)
      [] cls = "SubjectContextFetus" ->
             SubjectContextFetus_from_sequence(sequence)
      [] cls = "SubjectContextSpecimen" ->
             SubjectContextSpecimen_from_sequence(sequence)
      [] cls = "SubjectContextDevice" ->
             SubjectContextDevice_from_sequence(sequence)

InitContext ==
    /\ group = ContainerItem("MeasurementGroup", "CONTAINS", None, <<>>)
    /\ report = NoReport
    /\ last = NoCall

Called(op, args, result) ==
    /\ last' = [op |-> op, args |-> args, result |-> result]
    /\ UNCHANGED <<group, report>>

ConstructPersonAttributes ==
    /\ last.op = "none"
    /\ \E a \in PersonAttributesArgs :
           Called("__init__", a,
                  Ok(PersonObserverIdentifyingAttributes(
                         a.name, a.login_name, a.organization_name,
                         a.role_in_organization, a.role_in_procedure)))

ConstructDeviceAttributes ==
    /\ last.op = "none"
    /\ \E a \in DeviceAttributesArgs :
           Called("__init__", a,
                  Ok(DeviceObserverIdentifyingAttributes(
                         a.uid, a.name, a.manufacturer_name, a.model_name,
                         a.serial_number, a.physical_location,
                         a.role_in_procedure)))

ConstructFetus ==
    /\ last.op = "none"
    /\ \E subject_id \in {"fetus-1", "fetus-2"} :
           Called("__init__", [subject_id |-> subject_id],
                  Ok(SubjectContextFetus(subject_id)))

ConstructSpecimen ==
    /\ last.op = "none"
    /\ \E a \in SpecimenArgs :
           Called("__init__", a,
                  Ok(SubjectContextSpecimen(a.uid, a.identifier,
                                            a.container_identifier,
                                            a.specimen_type)))

ConstructSubjectDevice ==
    /\ last.op = "none"
    /\ \E a \in SubjectDeviceArgs :
           Called("__init__", a,
                  Ok(SubjectContextDevice(a.name, a.uid, a.manufacturer_name,
                                          a.model_name, a.serial_number,
                                          a.physical_location)))

\* The constructed template is parsed back by its class.
TemplateFromSequence ==
    /\ last.op = "__init__"
    /\ LET template == last.result.value IN
       Called("Template.from_sequence",
              [cls |-> template.type, sequence |-> template.items],
              Template_from_sequence(template.type, template.items))

PersonAttributes ==
    PersonObserverIdentifyingAttributes("Doe^John", "jdoe", None, None, None)

DeviceAttributes ==
    DeviceObserverIdentifyingAttributes("1.2.9", "Scanner", None, None, None,
                                        None, None)

SpecimenAttributes == SubjectContextSpecimen("1.2.7", "S1", "C1", None)

FetusAttributes == SubjectContextFetus("fetus-1")

SubjectDeviceAttributes ==
    SubjectContextDevice("Phantom", None, None, None, None, None)

ConstructObserverContext ==
    /\ last.op = "none"
    /\ \E observer_type \in {"Person", "Device", "Algorithm"},
          observer_identifying_attributes \in
              {PersonAttributes, DeviceAttributes, FetusAttributes, Stranger} :
           Called("ObserverContext",
                  [observer_type |-> observer_type,
                   observer_identifying_attributes |->
                       observer_identifying_attributes],
                  ObserverContext(observer_type,
                                  observer_identifying_attributes))

ConstructSubjectContext ==
    /\ last.op = "none"
    /\ \E subject_class \in {"Specimen", "Fetus", "Device", "Person"},
          subject_class_specific_context \in
              {SpecimenAttributes, FetusAttributes, SubjectDeviceAttributes,
               PersonAttributes, Stranger} :
           Called("SubjectContext",
                  [subject_class |-> subject_class,
                   subject_class_specific_context |->
                       subject_class_specific_context],
                  SubjectContext(subject_class,
                                 subject_class_specific_context))

DescriptionAttrs ==
    {"SpecimenIdentifier", "SpecimenUID", "SpecimenTypeCodeSequence"}

SpecimenDescriptions ==
    {SpecimenDescription(attrs, "S1", "1.2.7", "Tissue") :
         attrs \in SUBSET DescriptionAttrs}
    \cup {SpecimenDescription(DescriptionAttrs, "S2", "1.2.6", "Blood")}

\* Images with and without a container identifier, without a Specimen
\* Description Sequence, and with one of up to two items.
Images ==
    {Image(attrs, "C1", sequence) :
         attrs \in SUBSET {"ContainerIdentifier", "SpecimenDescriptionSequence"},
         sequence \in SeqsUpTo(SpecimenDescriptions, 2)}

SpecimenFromImage ==
    /\ last.op = "none"
    /\ \E image \in Images :
           Called("SubjectContextSpecimen.from_image", image,
                  SubjectContextSpecimen_from_image(image))

SubjectContextFromImage ==
    /\ last.op = "none"
    /\ \E image \in Images :
           Called("SubjectContext.from_image", image,
                  SubjectContext_from_image(image))

\* The children a parsed root container is made of.
ContextPool ==
    {Item("ObserverType", "CODE", "HAS_OBS_CONTEXT", "Person"),
     Item("PersonObserverName", "PNAME", "HAS_OBS_CONTEXT", "Doe^John"),
     Item("PersonObserverLoginName", "TEXT", "HAS_OBS_CONTEXT", "jdoe"),
     Item("ObserverType", "CODE", "HAS_OBS_CONTEXT", "Device"),
     Item("DeviceObserverUID", "UIDREF", "HAS_OBS_CONTEXT", "1.2.9"),
     Item("SubjectClass", "CODE", "HAS_OBS_CONTEXT", "Fetus"),
     Item("SubjectID", "TEXT", "HAS_OBS_CONTEXT", "fetus-1"),
     Item("SubjectClass", "CODE", "HAS_OBS_CONTEXT", "Specimen"),
     Item("SpecimenUID", "UIDREF", "HAS_OBS_CONTEXT", "1.2.7"),
     ImagingMeasurements(<<>>)}

ParseReport ==
    /\ last.op = "none"
    /\ \E content \in SeqsUpTo(ContextPool, MaxChildren) :
           LET sequence == <<Root("1500", content)>>
               result == ReportFromSequence(sequence)
           IN /\ result.status = "ok"
              /\ last' = [op |-> "from_sequence", args |-> sequence,
                          result |-> result]
              /\ report' = result.value
              /\ UNCHANGED group

GetObserverContexts ==
    /\ last.op = "from_sequence"
    /\ \E observer_type \in {None, "Person", "Device"} :
           Called("get_observer_contexts", [observer_type |-> observer_type],
                  get_observer_contexts(report, observer_type))

GetSubjectContexts ==
    /\ last.op = "from_sequence"
    /\ \E subject_class \in {None, "Fetus", "Specimen", "Device"} :
           Called("get_subject_contexts", [subject_class |-> subject_class],
                  get_subject_contexts(report, subject_class))

NextContext ==
    \/ ConstructPersonAttributes
    \/ ConstructDeviceAttributes
    \/ ConstructFetus
    \/ ConstructSpecimen
    \/ ConstructSubjectDevice
    \/ TemplateFromSequence
    \/ ConstructObserverContext
    \/ ConstructSubjectContext
    \/ SpecimenFromImage
    \/ SubjectContextFromImage
    \/ ParseReport
    \/ GetObserverContexts
    \/ GetSubjectContexts

SpecContext == InitContext /\ [][NextContext]_vars

(***************************************************************************)
(* TID 300 Measurement: parsing and the accessors of the NUM item          *)
(***************************************************************************)

MaxChildItems == 3    \* children appended to the NUM item of a measurement

\* Mutant: the items behind the first one are ignored.
Measurement_from_sequence_FirstOfMany(sequence) ==
    IF Len(sequence) = 0
    THEN Raise("IndexError", "sequence[0]")
    ELSE LET item == sequence[1] IN
    IF item.type # "NumContentItem"
    THEN Raise("TypeError", "not a NUM content item")
    ELSE LET measurement ==
                 MeasurementInit([name |-> item.items[1].name,
                                  value |-> item.items[1].val.value,
                                  unit |-> item.items[1].val.unit,
                                  qualifier |-> item.items[1].val.qualifier,
                                  method |-> None, derivation |-> None,
                                  finding_sites |-> NoneV,
                                  referenced_coordinates |-> NoneV])
         IN IF measurement.status # "ok" THEN measurement
            ELSE Ok(Obj("Measurement",
                        <<[measurement.value.items[1] EXCEPT
                              !.content = item.items[1].content]>>))

\* Measurement.from_sequence; the elements of the sequence are objects of a
\* content item class or plain datasets, each holding one item.
Measurement_from_sequence(sequence) ==
    IF Len(sequence) > 1
    THEN Raise("ValueError", "more than one item")
    ELSE IF Len(sequence) = 0
    THEN Raise("IndexError", "sequence[0]")
    ELSE LET item == sequence[1] IN
    IF item.type # "NumContentItem"
    THEN Raise("TypeError", "not a NUM content item")
    ELSE LET measurement ==
                 MeasurementInit([name |-> item.items[1].name,
                                  value |-> item.items[1].val.value,
                                  unit |-> item.items[1].val.unit,
                                  qualifier |-> item.items[1].val.qualifier,
                                  method |-> None, derivation |-> None,
                                  finding_sites |-> NoneV,
                                  referenced_coordinates |-> NoneV])
         IN IF measurement.status # "ok" THEN measurement
            ELSE Ok(Obj("Measurement",
                        <<[measurement.value.items[1] EXCEPT
                              !.content = item.items[1].content]>>))

\* X.from_dataset(m) for each match m of an accessor
FromDatasets(cls, matches) == [i \in DOMAIN matches |-> Obj(cls, <<matches[i]>>)]

\* Measurement.derivation
derivation(measurement) ==
    IF measurement.items[1].content = <<>>
    THEN None
    ELSE LET matches == find_content_items(measurement.items[1], "Derivation",
                                           "CODE", None)
         IN IF Len(matches) > 0 THEN matches[1].val ELSE None

\* Mutant: the last match is returned.
method_LastMatch(measurement) ==
    IF measurement.items[1].content = <<>>
    THEN None
    ELSE LET matches == find_content_items(measurement.items[1],
                                           "MeasurementMethod", "CODE", None)
         IN IF Len(matches) > 0 THEN matches[Len(matches)].val ELSE None

\* Measurement.method
method(measurement) ==
    IF measurement.items[1].content = <<>>
    THEN None
    ELSE LET matches == find_content_items(measurement.items[1],
                                           "MeasurementMethod", "CODE", None)
         IN IF Len(matches) > 0 THEN matches[1].val ELSE None

\* Measurement.referenced_images
referenced_images(measurement) ==
    IF measurement.items[1].content = <<>>
    THEN <<>>
    ELSE FromDatasets("SourceImageForMeasurement",
                      find_content_items(measurement.items[1],
                                         "SourceOfMeasurement", "IMAGE", None))

\* Measurement.finding_sites
finding_sites(measurement) ==
    IF measurement.items[1].content = <<>>
    THEN <<>>
    ELSE LET matches == find_content_items(measurement.items[1], "FindingSite",
                                           "CODE", None)
         IN IF Len(matches) > 0 THEN FromDatasets("FindingSite", matches)
            ELSE <<>>

(***************************************************************************)
(* SpecMeasurement: a measurement is constructed or parsed, items are      *)
(* appended to the children of its NUM item, and it is asked for its       *)
(* parts                                                                   *)
(***************************************************************************)

\* The children a caller appends to the NUM item.
ChildPool ==
    {Item("MeasurementMethod", "CODE", "HAS_CONCEPT_MOD", "Planimetry"),
     Item("MeasurementMethod", "CODE", "HAS_CONCEPT_MOD", "Caliper"),
     Item("MeasurementMethod", "TEXT", "HAS_CONCEPT_MOD", "by hand"),
     Item("Derivation", "CODE", "HAS_CONCEPT_MOD", "Mean"),
     FindingSite("Liver").items[1],
     SourceImage("SourceOfMeasurement", "INFERRED_FROM", "img1"),
     CoordinatesForMeasurement("POLYLINE", "img1").items[1],
     CoordinatesForMeasurement3D("POLYGON").items[1]}

\* The NUM items a parsed sequence is made of.
NumItems ==
    {[NumContentItem("Area", v, "mm2", q, rel) EXCEPT !.content = c] :
         v \in {"10"}, q \in {None, "NaN"},
         rel \in {"CONTAINS", "HAS_PROPERTIES"},
         c \in {<<>>,
                <<Item("Derivation", "CODE", "HAS_CONCEPT_MOD", "Mean"),
                  Item("MeasurementMethod", "CODE", "HAS_CONCEPT_MOD",
                       "Planimetry")>>}}

\* The elements of the sequences handed to Measurement.from_sequence: NUM
\* content items, the same items as plain datasets, and items of other value
\* types.
SequenceElements ==
    {Obj("NumContentItem", <<n>>) : n \in NumItems}
    \cup {Obj("Dataset", <<n>>) : n \in {NumContentItem("Area", "10", "mm2", None, "CONTAINS")}}
    \cup {Obj("TextContentItem", <<Item("Comment", "TEXT", "CONTAINS", "text")>>),
          Obj("CodeContentItem", <<Item("Finding", "CODE", "CONTAINS", "Mass")>>)}

MeasurementSequences == SeqsUpTo(SequenceElements, 2)

InitMeasurement ==
    /\ group \in {MeasurementInit(a).value.items[1] :
                      a \in {x \in MeasurementArgs :
                                 IsNone(x.referenced_coordinates)}}
    /\ report = NoReport
    /\ last = NoCall

\* Measurement.from_sequence: the parsed measurement is the one under work.
MeasurementFromSequence ==
    /\ last.op = "none"
    /\ \E sequence \in MeasurementSequences :
           LET result == Measurement_from_sequence(sequence) IN
           /\ last' = [op |-> "Measurement.from_sequence", args |-> sequence,
                       result |-> result]
           /\ group' = IF result.status = "ok" THEN result.value.items[1]
                       ELSE group
           /\ UNCHANGED report

\* measurement[0].ContentSequence.append(item)
AppendChild ==
    /\ Len(group.content) < MaxChildItems
    /\ \E item \in ChildPool :
           /\ group' = [group EXCEPT !.content = Append(@, item)]
           /\ last' = [op |-> "append", args |-> None, result |-> Ok(None)]
           /\ UNCHANGED report

\* measurement[0].ContentSequence.extend(items)
ExtendChildren ==
    /\ Len(group.content) + 2 <= MaxChildItems
    /\ \E items \in [1..2 -> ChildPool] :
           /\ group' = [group EXCEPT !.content = @ \o items]
           /\ last' = [op |-> "extend", args |-> None, result |-> Ok(None)]
           /\ UNCHANGED report

\* An accessor is called on a measurement that was constructed, parsed or
\* changed since the last call.
Changed == last.op \in {"none", "append", "extend", "Measurement.from_sequence"}

Accessed(op, result) ==
    /\ last' = [op |-> op, args |-> group, result |-> Ok(result)]
    /\ UNCHANGED <<group, report>>

GetMethod ==
    /\ Changed
    /\ Accessed("method", method(Obj("Measurement", <<group>>)))

GetDerivation ==
    /\ Changed
    /\ Accessed("derivation", derivation(Obj("Measurement", <<group>>)))

GetFindingSites ==
    /\ Changed
    /\ Accessed("finding_sites",
                List(finding_sites(Obj("Measurement", <<group>>))))

GetReferencedImages ==
    /\ Changed
    /\ Accessed("referenced_images",
                List(referenced_images(Obj("Measurement", <<group>>))))

GetReferencedCoordinates ==
    /\ Changed
    /\ Accessed("referenced_coordinates",
                List(referenced_coordinates(Obj("Measurement", <<group>>))))

NextMeasurement ==
    \/ MeasurementFromSequence
    \/ AppendChild
    \/ ExtendChildren
    \/ GetMethod
    \/ GetDerivation
    \/ GetFindingSites
    \/ GetReferencedImages
    \/ GetReferencedCoordinates

SpecMeasurement == InitMeasurement /\ [][NextMeasurement]_vars

(***************************************************************************)
(* Accessor properties of the templates                                    *)
(***************************************************************************)

MaxAppended == 2    \* items appended to a constructed context template

\* The accessor properties of the context templates for their optional
\* fields, each with the concept name it searches the template for.
TemplateAccessors ==
    [PersonObserverIdentifyingAttributes |->
         [login_name |-> "PersonObserverLoginName",
          organization_name |-> "PersonObserverOrganizationName",
          role_in_organization |-> "PersonObserverRoleInTheOrganization",
          role_in_procedure |-> "PersonObserverRoleInThisProcedure"],
     DeviceObserverIdentifyingAttributes |->
         [name |-> "DeviceObserverName",
          manufacturer_name |-> "DeviceObserverManufacturer",
          model_name |-> "DeviceObserverModelName",
          serial_number |-> "DeviceObserverSerialNumber",
          physical_location |->
              "DeviceObserverPhysicalLocationDuringObservation"],
     SubjectContextSpecimen |->
         [specimen_identifier |-> "SpecimenIdentifier",
          container_identifier |-> "SpecimenContainerIdentifier",
          specimen_type |-> "SpecimenType"],
     SubjectContextDevice |->
         [device_uid |-> "DeviceSubjectUID",
          device_manufacturer_name |-> "DeviceSubjectManufacturer",
          device_model_name |-> "DeviceSubjectModelName",
          device_serial_number |-> "DeviceSubjectSerialNumber",
          device_physical_location |->
              "DeviceSubjectPhysicalLocationDuringObservation"]]

\* Mutant: the value of the last match is returned.
TemplateProperty_LastMatch(self, name) ==
    LET matches == SelectSeq(self.items, LAMBDA item : item.name = name)
    IN IF Len(matches) > 0 THEN matches[Len(matches)].val ELSE None

\* The body the accessor properties of the context templates share: the
\* items of the template with the concept name, the value of the first one
\* (more than one is logged), None without a match.
TemplateProperty(self, name) ==
    LET matches == SelectSeq(self.items, LAMBDA item : item.name = name)
    IN IF Len(matches) > 0 THEN matches[1].val ELSE None

\* The value-returning accessor properties of the measurement groups with the
\* concept name and value type they search the children of the group for.
GroupAccessors ==
    [method |-> <<"MeasurementMethod", "CODE">>,
     tracking_identifier |-> <<"TrackingIdentifier", "TEXT">>,
     tracking_uid |-> <<"TrackingUniqueIdentifier", "UIDREF">>,
     finding_category |-> <<"FindingCategory", "CODE">>,
     finding_type |-> <<"Finding", "CODE">>]

\* The body these accessor properties share.
GroupProperty(self, name, value_type) ==
    LET matches == find_content_items(self.items[1], name, value_type, None)
    IN IF Len(matches) > 0 THEN matches[1].val ELSE None

\* The item-returning accessor properties of the ROI groups.
GroupItemAccessors ==
    [_referenced_segmentation_frame_item |->
         <<"ReferencedSegmentationFrame", "IMAGE", "ImageContentItem">>,
     _source_image_for_segmentation_item |->
         <<"SourceImageForSegmentation", "IMAGE", "SourceImageForSegmentation">>,
     _source_series_for_segmentation_item |->
         <<"SourceSeriesForSegmentation", "UIDREF",
           "SourceSeriesForSegmentation">>,
     _referenced_segment_item |->
         <<"ReferencedSegment", "IMAGE", "ImageContentItem">>]

\* The body they share: the first match as an item of the class, None
\* without a match.
GroupItemProperty(self, name, value_type, cls) ==
    LET matches == find_content_items(self.items[1], name, value_type, None)
    IN IF Len(matches) = 0 THEN NoneV ELSE Obj(cls, <<matches[1]>>)

\* _MeasurementsAndQualitativeEvaluations.finding_sites
group_finding_sites(self) ==
    LET matches == find_content_items(self.items[1], "FindingSite", "CODE", None)
    IN IF Len(matches) > 0 THEN FromDatasets("FindingSite", matches) ELSE <<>>

\* VolumetricROIMeasurementsAndQualitativeEvaluations
\* ._source_image_for_segmentation_items
_source_image_for_segmentation_items(self) ==
    FromDatasets("SourceImageForSegmentation",
                 find_content_items(self.items[1], "SourceImageForSegmentation",
                                    "IMAGE", "CONTAINS"))

(***************************************************************************)
(* SpecAccessor: items are appended to a constructed context template or   *)
(* to the children of a parsed measurement group, and the accessor         *)
(* properties are read                                                     *)
(***************************************************************************)

\* The context templates under work, built by their constructors.
BuiltTemplates ==
    {PersonObserverIdentifyingAttributes("Doe^John", l, None, None, r) :
         l \in Optional("jdoe"), r \in Optional("Performing")}
    \cup {DeviceObserverIdentifyingAttributes("1.2.9", n, m, None, None, None,
                                              None) :
              n \in Optional("Scanner"), m \in Optional("Acme")}
    \cup {SubjectContextSpecimen("1.2.7", i, None, t) :
              i \in Optional("S1"), t \in Optional("Tissue")}
    \cup {SubjectContextDevice("Phantom", u, None, None, s, None) :
              u \in Optional("1.2.8"), s \in Optional("SN1")}

\* The items appended to a template.
AppendedItems ==
    {Item("PersonObserverLoginName", "TEXT", "HAS_OBS_CONTEXT", "other"),
     Item("PersonObserverRoleInThisProcedure", "CODE", "HAS_OBS_CONTEXT",
          "Verifying"),
     Item("DeviceObserverName", "TEXT", "HAS_OBS_CONTEXT", "Other scanner"),
     Item("SpecimenIdentifier", "TEXT", "HAS_OBS_CONTEXT", "S2"),
     Item("DeviceSubjectUID", "UIDREF", "HAS_OBS_CONTEXT", "1.2.99")}

\* The children of a parsed measurement group.
AccessedChildren ==
    {Item("MeasurementMethod", "CODE", "HAS_CONCEPT_MOD", "Planimetry"),
     Item("MeasurementMethod", "CODE", "HAS_CONCEPT_MOD", "Caliper"),
     Item("MeasurementMethod", "TEXT", "HAS_CONCEPT_MOD", "by hand"),
     Item("TrackingUniqueIdentifier", "UIDREF", "HAS_OBS_CONTEXT", "1.2.3"),
     Item("Finding", "CODE", "CONTAINS", "Mass"),
     FindingSite("Liver").items[1],
     FindingSite("Lung").items[1],
     SourceImage("ReferencedSegmentationFrame", "CONTAINS", "f1"),
     SourceImage("ReferencedSegmentationFrame", "CONTAINS", "f2"),
     SourceImage("SourceImageForSegmentation", "CONTAINS", "img1")}

InitAccessor ==
    /\ group = ContainerItem("MeasurementGroup", "CONTAINS", "1410", <<>>)
    /\ report = NoReport
    /\ last = NoCall

\* A context template is constructed; the result of the call is the template
\* under work, the arguments kept are the number of items appended to it.
BuildTemplate ==
    /\ last.op = "none"
    /\ group.content = <<>>
    /\ \E template \in BuiltTemplates :
           Called("__init__", 0, Ok(template))

\* template.append(item); the result kept is the template after the call.
AppendToTemplate ==
    /\ last.op \in {"__init__", "Template.append"}
    /\ last.args < MaxAppended
    /\ \E item \in AppendedItems :
           Called("Template.append", last.args + 1,
                  Ok(Obj(last.result.value.type,
                         Append(last.result.value.items, item))))

GetTemplateProperty ==
    /\ last.op \in {"__init__", "Template.append"}
    /\ LET self == last.result.value IN
       \E property \in DOMAIN TemplateAccessors[self.type] :
           Called("Template.property", [self |-> self, property |-> property],
                  Ok(TemplateProperty(self,
                                      TemplateAccessors[self.type][property])))

\* cls.from_sequence(template): the template is rebuilt from its items, as
\* observer_identifying_attributes, subject_class_specific_context and the
\* context getters of the report do.
RebuildTemplate ==
    /\ last.op \in {"__init__", "Template.append"}
    /\ LET self == last.result.value IN
       Called("Template.from_sequence", [self |-> self],
              Template_from_sequence(self.type, self.items))

\* A child is appended to the parsed measurement group.
AppendGroupChild ==
    /\ last.op \in {"none", "append"}
    /\ Len(group.content) < MaxItems
    /\ \E item \in AccessedChildren :
           /\ group' = [group EXCEPT !.content = Append(@, item)]
           /\ last' = [op |-> "append", args |-> None, result |-> Ok(None)]
           /\ UNCHANGED report

GetGroupProperty ==
    /\ last.op \in {"none", "append"}
    /\ \E property \in DOMAIN GroupAccessors :
           Called("Group.property", [property |-> property],
                  Ok(GroupProperty(Obj("MeasurementGroup", <<group>>),
                                   GroupAccessors[property][1],
                                   GroupAccessors[property][2])))

GetGroupItem ==
    /\ last.op \in {"none", "append"}
    /\ \E property \in DOMAIN GroupItemAccessors :
           Called("Group.item", [property |-> property],
                  Ok(GroupItemProperty(Obj("MeasurementGroup", <<group>>),
                                       GroupItemAccessors[property][1],
                                       GroupItemAccessors[property][2],
                                       GroupItemAccessors[property][3])))

GetGroupFindingSites ==
    /\ last.op \in {"none", "append"}
    /\ Called("Group.finding_sites", None,
              Ok(List(group_finding_sites(Obj("MeasurementGroup", <<group>>)))))

GetSourceImagesForSegmentation ==
    /\ last.op \in {"none", "append"}
    /\ Called("Group._source_image_for_segmentation_items", None,
              Ok(List(_source_image_for_segmentation_items(
                          Obj("MeasurementGroup", <<group>>)))))

NextAccessor ==
    \/ BuildTemplate
    \/ AppendToTemplate
    \/ GetTemplateProperty
    \/ RebuildTemplate
    \/ AppendGroupChild
    \/ GetGroupProperty
    \/ GetGroupItem
    \/ GetGroupFindingSites
    \/ GetSourceImagesForSegmentation

SpecAccessor == InitAccessor /\ [][NextAccessor]_vars

(***************************************************************************)
(* TID 310 / 311 / 312 measurement properties and the type checks of the   *)
(* constructors                                                            *)
(***************************************************************************)

MaxValues == 2    \* elements of the values handed to a properties constructor

\* TID 311: a wrong container of values is a TypeError, a wrong element a
\* ValueError.
MeasurementStatisticalProperties(values, description, authority) ==
    IF values.type \notin {"list", "tuple"}
    THEN Raise("TypeError", "values")
    ELSE IF ~AllOfType(values.items, {"NumContentItem"})
    THEN Raise("ValueError", "values items")
    ELSE Ok(Obj("MeasurementStatisticalProperties",
                Flatten(values.items)
                \o OptItem(description, "PopulationDescription", "TEXT",
                           "HAS_PROPERTIES")
                \o OptItem(authority, "ReferenceAuthority", "TEXT",
                           "HAS_PROPERTIES")))

\* TID 312
NormalRangeProperties(values, description, authority) ==
    IF values.type \notin {"list", "tuple"}
    THEN Raise("TypeError", "values")
    ELSE IF ~AllOfType(values.items, {"NumContentItem"})
    THEN Raise("ValueError", "values items")
    ELSE Ok(Obj("NormalRangeProperties",
                Flatten(values.items)
                \o OptItem(description, "NormalRangeDescription", "TEXT",
                           "HAS_PROPERTIES")
                \o OptItem(authority, "NormalRangeAuthority", "TEXT",
                           "HAS_PROPERTIES")))

\* TID 310 with the arguments a.normality, a.level_of_significance,
\* a.selection_status, a.measurement_statistical_properties,
\* a.normal_range_properties, a.upper_measurement_uncertainty and
\* a.lower_measurement_uncertainty.
MeasurementProperties(a) ==
    IF /\ ~IsNone(a.measurement_statistical_properties)
       /\ a.measurement_statistical_properties.type
              # "MeasurementStatisticalProperties"
    THEN Raise("TypeError", "measurement_statistical_properties")
    ELSE IF /\ ~IsNone(a.normal_range_properties)
            /\ a.normal_range_properties.type # "NormalRangeProperties"
    THEN Raise("TypeError", "normal_range_properties")
    ELSE Ok(Obj("MeasurementProperties",
                OptItem(a.normality, "Normality", "CODE", "HAS_PROPERTIES")
                \o OptItems(a.measurement_statistical_properties)
                \o OptItems(a.normal_range_properties)
                \o OptItem(a.level_of_significance, "LevelOfSignificance",
                           "CODE", "HAS_PROPERTIES")
                \o OptItem(a.selection_status, "SelectionStatus", "CODE",
                           "HAS_PROPERTIES")
                \o (IF a.upper_measurement_uncertainty # None
                    THEN <<NumContentItem("RangeOfUpperMeasurementUncertainty",
                                          a.upper_measurement_uncertainty, "1",
                                          None, "HAS_PROPERTIES")>>
                    ELSE <<>>)
                \o (IF a.lower_measurement_uncertainty # None
                    THEN <<NumContentItem("RangeOfLowerMeasurementUncertainty",
                                          a.lower_measurement_uncertainty, "1",
                                          None, "HAS_PROPERTIES")>>
                    ELSE <<>>)))

(***************************************************************************)
(* SpecProperties: the constructors are called with arguments of the       *)
(* right and of the wrong types                                            *)
(***************************************************************************)

\* The elements of a values argument: NUM content items, a content item of
\* another type and an object that is no content item.
ValueElements ==
    {Obj("NumContentItem",
         <<NumContentItem("Mean", "5", "mm", None, "HAS_PROPERTIES")>>),
     Obj("NumContentItem",
         <<NumContentItem("StandardDeviation", "1", "mm", None,
                          "HAS_PROPERTIES")>>),
     Obj("TextContentItem", <<Item("Comment", "TEXT", "HAS_PROPERTIES", "text")>>),
     Stranger}

ValuesArgs ==
    {Obj(type, elements) : type \in {"list", "tuple", "set"},
                           elements \in SeqsUpTo(ValueElements, MaxValues)}
    \cup {Stranger}

StatisticalProperties ==
    MeasurementStatisticalProperties(List(<<CHOOSE e \in ValueElements :
                                                e.type = "NumContentItem">>),
                                     "population", None).value

NormalRange ==
    NormalRangeProperties(List(<<CHOOSE e \in ValueElements :
                                     e.type = "NumContentItem">>),
                          None, "authority").value

MeasurementPropertiesArgs ==
    [normality : Optional("Normal"),
     level_of_significance : {None},
     selection_status : {None},
     measurement_statistical_properties :
         {NoneV, StatisticalProperties, NormalRange, Stranger},
     normal_range_properties :
         {NoneV, NormalRange, StatisticalProperties, Stranger},
     upper_measurement_uncertainty : Optional("2"),
     lower_measurement_uncertainty : {None}]

ContextArgs ==
    {NoneV, PersonContext, DeviceContext, FetusContext, PersonAttributes,
     Stranger}

FindingSitesArgs ==
    {NoneV, Stranger, List(<<FindingSite("Liver")>>),
     List(<<FindingSite("Liver"), Stranger>>),
     List(<<CoordinatesForMeasurement3D("POLYGON")>>)}

InitProperties ==
    /\ group = ContainerItem("MeasurementGroup", "CONTAINS", None, <<>>)
    /\ report = NoReport
    /\ last = NoCall

ConstructStatisticalProperties ==
    /\ last.op = "none"
    /\ \E values \in ValuesArgs, description \in Optional("population"),
          authority \in Optional("authority") :
           Called("MeasurementStatisticalProperties",
                  [values |-> values, description |-> description,
                   authority |-> authority],
                  MeasurementStatisticalProperties(values, description,
                                                   authority))

ConstructNormalRangeProperties ==
    /\ last.op = "none"
    /\ \E values \in ValuesArgs, description \in Optional("range"),
          authority \in Optional("authority") :
           Called("NormalRangeProperties",
                  [values |-> values, description |-> description,
                   authority |-> authority],
                  NormalRangeProperties(values, description, authority))

ConstructMeasurementProperties ==
    /\ last.op = "none"
    /\ \E a \in MeasurementPropertiesArgs :
           Called("MeasurementProperties", a, MeasurementProperties(a))

ConstructObservationContext ==
    /\ last.op = "none"
    /\ \E p \in ContextArgs, d \in ContextArgs, s \in ContextArgs :
           Called("ObservationContext",
                  [observer_person_context |-> p,
                   observer_device_context |-> d, subject_context |-> s],
                  ObservationContext(p, d, s))

ConstructMeasurement ==
    /\ last.op = "none"
    /\ \E m \in MeasurementArgs, sites \in FindingSitesArgs :
           LET a == [m EXCEPT !.finding_sites = sites] IN
           Called("Measurement", a, MeasurementInit(a))

NextProperties ==
    \/ ConstructStatisticalProperties
    \/ ConstructNormalRangeProperties
    \/ ConstructMeasurementProperties
    \/ ConstructObservationContext
    \/ ConstructMeasurement

SpecProperties == InitProperties /\ [][NextProperties]_vars

(***************************************************************************)
(* SpecLibrary: the modality lookup, the image library entry descriptors   *)
(* and the image library are built from datasets                           *)
(***************************************************************************)

MaxDatasets == 3       \* datasets handed to the image library
MaxDescriptors == 2    \* elements of additional_descriptors

\* SOP Class UIDs with and without an entry in the table.
SOPClassUIDs ==
    DOMAIN sopclass_to_modality_map
    \cup {"RawDataStorage", "EncapsulatedPDFStorage", ""}

\* Datasets: two CT images and an enhanced CT image of one frame of
\* reference, a CT image of another, images without a frame of reference, a
\* structured report and an object of a SOP class the table lacks.
LibraryDatasets ==
    {Dataset("img1", "CTImageStorage", "CT", "for1"),
     Dataset("img2", "CTImageStorage", "CT", "for1"),
     Dataset("img3", "CTImageStorage", "CT", "for2"),
     Dataset("img4", "EnhancedCTImageStorage", "CT", "for1"),
     Dataset("img5", "MRImageStorage", "MR", None),
     Dataset("img6", "DigitalXRayImageStorageForPresentation", "DX", None),
     Dataset("sr1", "ComprehensiveSRStorage", "SR", None),
     Dataset("raw1", "RawDataStorage", "OT", None)}

\* Objects a caller may hand over as additional descriptors: content items
\* with different relationship types and an object that is no content item.
DescriptorElements ==
    {Obj("TextContentItem", <<Item("Comment", "TEXT", "CONTAINS", "text")>>),
     Obj("CodeContentItem", <<Item("Finding", "CODE", "HAS_PROPERTIES", "F1")>>),
     Obj("NumContentItem",
         <<NumContentItem("SliceThickness", "2", "mm", None, "HAS_ACQ_CONTEXT")>>),
     Stranger}

AdditionalDescriptorsArgs ==
    {NoneV} \cup {List(ds) : ds \in SeqsUpTo(DescriptorElements, MaxDescriptors)}

InitLibrary ==
    /\ group = ContainerItem("MeasurementGroup", "CONTAINS", None, <<>>)
    /\ report = NoReport
    /\ last = NoCall

GetCodedModality ==
    /\ last.op = "none"
    /\ \E sop_class_uid \in SOPClassUIDs :
           Called("_get_coded_modality", sop_class_uid,
                  _get_coded_modality(sop_class_uid))

\* The call is recorded with the additional descriptors as they were handed
\* over (args) and as the caller finds them afterwards (after).
ConstructDescriptors ==
    /\ last.op = "none"
    /\ \E image \in LibraryDatasets,
          additional_descriptors \in AdditionalDescriptorsArgs :
           /\ last' = [op |-> "ImageLibraryEntryDescriptors",
                       args |-> [image |-> image,
                                 additional_descriptors |-> additional_descriptors],
                       result |-> ImageLibraryEntryDescriptors(
                                      image, additional_descriptors),
                       after |-> AdditionalDescriptorsAfter(
                                     image, additional_descriptors)]
           /\ UNCHANGED <<group, report>>

ConstructLibrary ==
    /\ last.op = "none"
    /\ \E datasets \in SeqsUpTo(LibraryDatasets, MaxDatasets) :
           Called("ImageLibrary", datasets, ImageLibrary(datasets))

NextLibrary ==
    \/ GetCodedModality
    \/ ConstructDescriptors
    \/ ConstructLibrary

SpecLibrary == InitLibrary /\ [][NextLibrary]_vars

(***************************************************************************)
(* SpecTwice: a template class is constructed twice with equal arguments   *)
(***************************************************************************)

\* Values UID() may return; which one it returns is not determined by the
\* arguments of the constructor.
GeneratedUIDs == {"2.25.101", "2.25.102", "2.25.103"}

TrackingIdentifierInitArgs ==
    [uid : {None, "1.2.3", "1.2.4"}, identifier : {None, "lesion-1", "lesion-2"}]

TimePointContextArgs ==
    [time_point : {"tp1", "tp2", "tp3"}, time_point_type : Optional("Baseline"),
     time_point_order : Optional("1")]

\* The constructor of the class cls applied to the arguments a; generated
\* is what UID() returns during the call.
TemplateInit(cls, a, generated) ==
    CASE cls = "TrackingIdentifier" ->
             Ok(TrackingIdentifierInit(a.uid, a.identifier, generated))
      [] cls = "TimePointContext" ->
             Ok(TimePointContext(a.time_point, a.time_point_type,
                                 a.time_point_order))
      [] cls = "PersonObserverIdentifyingAttributes" ->
             Ok(PersonObserverIdentifyingAttributes(
                    a.name, a.login_name, a.organization_name,
                    a.role_in_organization, a.role_in_procedure))
      [] cls = "Measurement" -> MeasurementInit(a)

\* No second construction yet.
NotYet == [status |-> "none", value |-> None]

InitTwice ==
    /\ group = ContainerItem("MeasurementGroup", "CONTAINS", None, <<>>)
    /\ report = NoReport
    /\ last = NoCall

ConstructedOnce(cls, a, generated) ==
    /\ last' = [op |-> cls, args |-> a,
                result |-> TemplateInit(cls, a, generated), again |-> NotYet]
    /\ UNCHANGED <<group, report>>

ConstructTrackingIdentifier ==
    /\ last.op = "none"
    /\ \E a \in TrackingIdentifierInitArgs, generated \in GeneratedUIDs :
           ConstructedOnce("TrackingIdentifier", a, generated)

ConstructTimePointContext ==
    /\ last.op = "none"
    /\ \E a \in TimePointContextArgs, generated \in GeneratedUIDs :
           ConstructedOnce("TimePointContext", a, generated)

ConstructPersonAttributesOnce ==
    /\ last.op = "none"
    /\ \E a \in PersonAttributesArgs, generated \in GeneratedUIDs :
           ConstructedOnce("PersonObserverIdentifyingAttributes", a, generated)

ConstructMeasurementOnce ==
    /\ last.op = "none"
    /\ \E a \in MeasurementArgs, generated \in GeneratedUIDs :
           ConstructedOnce("Measurement", a, generated)

\* The same class is constructed again with the same arguments.
ConstructAgain ==
    /\ last.op # "none"
    /\ last.again = NotYet
    /\ \E generated \in GeneratedUIDs :
           last' = [last EXCEPT
                       !.again = TemplateInit(last.op, last.args, generated)]
    /\ UNCHANGED <<group, report>>

NextTwice ==
    \/ ConstructTrackingIdentifier
    \/ ConstructTimePointContext
    \/ ConstructPersonAttributesOnce
    \/ ConstructMeasurementOnce
    \/ ConstructAgain

SpecTwice == InitTwice /\ [][NextTwice]_vars

(***************************************************************************)
(* highdicom.valuerep.check_person_name and SpecName, in which it is       *)
(* called with strings and other objects                                   *)
(***************************************************************************)

MaxNameLen == 3    \* characters of a person name

\* The characters of the names: a letter, a blank and the caret that
\* separates the components of a person name.
NameChars == {"B", " ", "^"}

\* A str, a pydicom PersonName or a bytes object with the given characters.
Text(type, chars) == [type |-> type, chars |-> chars]

\* '^' in person_name
HasCaret(person_name) == \E i \in DOMAIN person_name.chars : person_name.chars[i] = "^"

\* Mutant: the empty string is rejected like any other string without caret.
check_person_name_EmptyRejected(person_name) ==
    IF person_name.type \notin {"str", "PersonName"}
    THEN Raise("TypeError", "person_name")
    ELSE IF ~HasCaret(person_name)
    THEN Raise("ValueError", "single component")
    ELSE Ok(None)

check_person_name(person_name) ==
    IF person_name.type \notin {"str", "PersonName"}
    THEN Raise("TypeError", "person_name")
    ELSE IF ~HasCaret(person_name) /\ person_name.chars # <<>>
    THEN Raise("ValueError", "single component")
    ELSE Ok(None)

PersonNameArgs ==
    {Text(type, chars) : type \in {"str", "PersonName", "bytes"},
                         chars \in SeqsUpTo(NameChars, MaxNameLen)}
    \cup {Text("int", <<>>), Text("NoneType", <<>>)}

InitName ==
    /\ group = ContainerItem("MeasurementGroup", "CONTAINS", None, <<>>)
    /\ report = NoReport
    /\ last = NoCall

CheckPersonName ==
    /\ last.op = "none"
    /\ \E person_name \in PersonNameArgs :
           Called("check_person_name", person_name,
                  check_person_name(person_name))

NextName == CheckPersonName

SpecName == InitName /\ [][NextName]_vars

(***************************************************************************)
(* get_measurements and get_qualitative_evaluations of the measurement     *)
(* groups                                                                  *)
(***************************************************************************)

MaxEvaluations == 2    \* qualitative evaluations handed to a group constructor

\* The first outcome that is an error, or the values of all outcomes.
Collected(outcomes) ==
    IF \E i \in DOMAIN outcomes : outcomes[i].status # "ok"
    THEN outcomes[CHOOSE i \in DOMAIN outcomes :
                      /\ outcomes[i].status # "ok"
                      /\ \A j \in 1..(i - 1) : outcomes[j].status = "ok"]
    ELSE Ok([i \in DOMAIN outcomes |-> outcomes[i].value])

\* matches of get_measurements: the NUM children, of the name if one is
\* given, whatever their relationship type.
MeasurementMatches(root_item, name) ==
    find_content_items(root_item, name, "NUM", None)

\* _MeasurementsAndQualitativeEvaluations.get_measurements on a group whose
\* NUM children are NumContentItem objects, as in a constructed group.
get_measurements(self, name) ==
    LET matches == MeasurementMatches(self[1], name)
    IN Collected([i \in DOMAIN matches |->
                     Measurement_from_sequence(
                         <<Obj("NumContentItem", <<matches[i]>>)>>)])

\* QualitativeEvaluation.from_sequence
QualitativeEvaluation_from_sequence(sequence) ==
    IF Len(sequence) > 1
    THEN Raise("ValueError", "more than one item")
    ELSE IF Len(sequence) = 0
    THEN Raise("IndexError", "sequence[0]")
    ELSE Ok(QualitativeEvaluation(sequence[1].name, sequence[1].val))

\* The concept names get_qualitative_evaluations leaves out.
NotEvaluations == {"Finding", "FindingSite", "MeasurementMethod"}

\* _MeasurementsAndQualitativeEvaluations.get_qualitative_evaluations
get_qualitative_evaluations(self, name) ==
    LET matches == SelectSeq(find_content_items(self[1], name, "CODE", None),
                             LAMBDA item : item.name \notin NotEvaluations)
    IN Collected([i \in DOMAIN matches |->
                     QualitativeEvaluation_from_sequence(<<matches[i]>>)])

(***************************************************************************)
(* SpecEvaluations: a measurement group is constructed and asked for its   *)
(* measurements or its qualitative evaluations                             *)
(***************************************************************************)

\* Measurements of two names, without referenced coordinates.
NamedMeasurements ==
    {MeasurementInit([name |-> n, value |-> "10", unit |-> "mm2",
                      qualifier |-> None, method |-> m, derivation |-> None,
                      finding_sites |-> NoneV,
                      referenced_coordinates |-> NoneV]).value :
         n \in {"Area", "Length"}, m \in {None}}
    \cup {MeasurementInit([name |-> "Area", value |-> "10", unit |-> "mm2",
                           qualifier |-> None, method |-> "Planimetry",
                           derivation |-> None, finding_sites |-> NoneV,
                           referenced_coordinates |-> NoneV]).value}

NamedEvaluations ==
    {QualitativeEvaluation("Q1", "A1"), QualitativeEvaluation("Q2", "A2")}

\* The optional arguments of the group other than the measurements, the
\* evaluations and the time point context.
DescriptiveArgs ==
    { DefaultArgs,
      [DefaultArgs EXCEPT !.finding_category = "Cat1"],
      [DefaultArgs EXCEPT !.finding_type = "F1", !.method = "RECIST",
                          !.finding_sites = List(<<FindingSite("S1")>>)],
      [DefaultArgs EXCEPT !.geometric_purpose = "Outline"],
      [DefaultArgs EXCEPT !.finding_category = "Cat1", !.finding_type = "F1",
                          !.method = "RECIST",
                          !.finding_sites = List(<<FindingSite("S1")>>),
                          !.geometric_purpose = "Outline",
                          !.algorithm_id = AlgorithmIdentification("algo", "1.0"),
                          !.session = "session1"] }

TimePointContexts ==
    { NoneV, TimePointContext("tp1", None, None),
      TimePointContext("tp1", "Baseline", None),
      TimePointContext("tp1", "Baseline", "1") }

\* The group classes with a reference each constructor accepts.
GroupClasses ==
    [PlanarROI |-> [DefaultArgs EXCEPT
                       !.referenced_region = ImageRegion("POLYLINE", "img1")],
     VolumetricROI |-> [DefaultArgs EXCEPT
                           !.referenced_volume_surface =
                               VolumeSurface("ELLIPSOID", "img1")],
     MeasurementsAndQualitativeEvaluations |-> DefaultArgs]

GroupInit(cls, a) ==
    CASE cls = "PlanarROI" -> PlanarInit(a)
      [] cls = "VolumetricROI" -> VolumetricInit(a)
      [] cls = "MeasurementsAndQualitativeEvaluations" -> MQEInit(a)

InitEvaluations ==
    /\ group = ContainerItem("MeasurementGroup", "CONTAINS", None, <<>>)
    /\ report = NoReport
    /\ last = NoCall

\* The constructed group is the group under work.
ConstructGroupWith ==
    /\ last.op = "none"
    /\ \E cls \in DOMAIN GroupClasses, d \in DescriptiveArgs,
          tp \in TimePointContexts,
          ms \in {NoneV} \cup {List(s) : s \in SeqsUpTo(NamedMeasurements,
                                                        MaxMeasurements)},
          qs \in {NoneV} \cup {List(s) : s \in SeqsUpTo(NamedEvaluations,
                                                        MaxEvaluations)} :
           LET a == [d EXCEPT
                        !.referenced_region = GroupClasses[cls].referenced_region,
                        !.referenced_volume_surface =
                            GroupClasses[cls].referenced_volume_surface,
                        !.geometric_purpose =
                            IF cls = "MeasurementsAndQualitativeEvaluations"
                            THEN None ELSE d.geometric_purpose,
                        !.time_point_context = tp,
                        !.measurements = ms,
                        !.qualitative_evaluations = qs]
               result == GroupInit(cls, a)
           IN /\ result.status = "ok"
              /\ group' = result.value[1]
              /\ last' = [op |-> cls, args |-> a, result |-> result]
              /\ UNCHANGED report

\* The getters leave the group as it is; the arguments of the constructor
\* are kept with the call.
GetMeasurements ==
    /\ last.op \in DOMAIN GroupClasses
    /\ \E name \in {None, "Area", "Length", "TimePointOrder"} :
           Called("get_measurements", [name |-> name, init |-> last.args],
                  get_measurements(<<group>>, name))

GetQualitativeEvaluations ==
    /\ last.op \in DOMAIN GroupClasses
    /\ \E name \in {None, "Q1", "FindingCategory"} :
           Called("get_qualitative_evaluations",
                  [name |-> name, init |-> last.args],
                  get_qualitative_evaluations(<<group>>, name))

NextEvaluations ==
    \/ ConstructGroupWith
    \/ GetMeasurements
    \/ GetQualitativeEvaluations

SpecEvaluations == InitEvaluations /\ [][NextEvaluations]_vars

(***************************************************************************)
(* Claims about the classification heuristics and reference extraction     *)
(* (checked under SpecGroup)                                               *)
(***************************************************************************)

IsMeasurementGroup(g) == g.vt = "CONTAINER" /\ g.name = "MeasurementGroup"

\* The number of direct children of g with the given name and one of the
\* given value types.
NumChildren(g, name, vts) ==
    Cardinality({i \in DOMAIN g.content :
                    g.content[i].name = name /\ g.content[i].vt \in vts})

\* C3: for every Measurement Group container, _contains_planar_rois returns
\* true exactly when (the group has exactly one image-region item, 2D or 3D,
\* or at least one referenced-segmentation-frame item, or exactly one
\* region-in-space item) and it has no volume-surface item and no
\* referenced-segment item, counted among the direct children by concept
\* name and value type; otherwise it returns false.
C3_PlanarRule ==
    (last.op = "_contains_planar_rois" /\ IsMeasurementGroup(group)) =>
        last.result =
            Ok(/\ \/ NumChildren(group, "ImageRegion", {"SCOORD", "SCOORD3D"}) = 1
                  \/ NumChildren(group, "ReferencedSegmentationFrame", {"IMAGE"}) >= 1
                  \/ NumChildren(group, "RegionInSpace", {"COMPOSITE"}) = 1
               /\ NumChildren(group, "VolumeSurface", {"SCOORD3D"}) = 0
               /\ NumChildren(group, "ReferencedSegment", {"IMAGE"}) = 0)

\* A group with exactly one image region, which is 3D, beside a region named
\* Image Region of another value type, was classified planar.
C3_Witness ==
    /\ last.op = "_contains_planar_rois"
    /\ IsMeasurementGroup(group)
    /\ NumChildren(group, "ImageRegion", {"SCOORD3D"}) = 1
    /\ NumChildren(group, "ImageRegion", {"SCOORD"}) = 0
    /\ NumChildren(group, "ImageRegion", {"TEXT"}) = 1
    /\ last.result = Ok(TRUE)

\* C4: for every Measurement Group container, _contains_volumetric_rois
\* returns true exactly when (the group has more than one 2D image-region
\* item, or at least one referenced-segment item, or at least one
\* volume-surface item, or at least one region-in-space item) and it has no
\* referenced-segmentation-frame item and no 3D image-region item; otherwise
\* it returns false.
C4_VolumetricRule ==
    (last.op = "_contains_volumetric_rois" /\ IsMeasurementGroup(group)) =>
        last.result =
            Ok(/\ \/ NumChildren(group, "ImageRegion", {"SCOORD"}) > 1
                  \/ NumChildren(group, "ReferencedSegment", {"IMAGE"}) >= 1
                  \/ NumChildren(group, "VolumeSurface", {"SCOORD3D"}) >= 1
                  \/ NumChildren(group, "RegionInSpace", {"COMPOSITE"}) >= 1
               /\ NumChildren(group, "ReferencedSegmentationFrame", {"IMAGE"}) = 0
               /\ NumChildren(group, "ImageRegion", {"SCOORD3D"}) = 0)

\* A group with two 2D image regions and one 3D image region was classified
\* not volumetric.
C4_Witness ==
    /\ last.op = "_contains_volumetric_rois"
    /\ IsMeasurementGroup(group)
    /\ NumChildren(group, "ImageRegion", {"SCOORD"}) = 2
    /\ NumChildren(group, "ImageRegion", {"SCOORD3D"}) = 1
    /\ last.result = Ok(FALSE)

\* The group holds exactly one 2D image region and no other ROI reference.
SingleRegion2D(g) ==
    /\ IsMeasurementGroup(g)
    /\ NumChildren(g, "ImageRegion", {"SCOORD"}) = 1
    /\ NumChildren(g, "ImageRegion", {"SCOORD3D"}) = 0
    /\ NumChildren(g, "VolumeSurface", {"SCOORD3D"}) = 0
    /\ NumChildren(g, "ReferencedSegment", {"IMAGE"}) = 0
    /\ NumChildren(g, "ReferencedSegmentationFrame", {"IMAGE"}) = 0
    /\ NumChildren(g, "RegionInSpace", {"COMPOSITE"}) = 0

\* C5: for a measurement group whose direct children include exactly one 2D
\* image-region item and no other ROI reference item, _contains_planar_rois
\* is true and _contains_volumetric_rois is false, whatever other children
\* the group holds.
C5_SingleRegionIsPlanar ==
    SingleRegion2D(group) =>
        /\ last.op = "_contains_planar_rois" => last.result = Ok(TRUE)
        /\ last.op = "_contains_volumetric_rois" => last.result = Ok(FALSE)

\* A group with one 2D image region and two children that are no ROI
\* reference was asked whether it is volumetric.
C5_Witness ==
    /\ SingleRegion2D(group)
    /\ Len(group.content) = 3
    /\ \E i \in DOMAIN group.content : group.content[i].name = "Finding"
    /\ last.op = "_contains_volumetric_rois"
    /\ last.result = Ok(FALSE)

\* The children _get_roi_reference_items considers.
Considered(g, allowed) ==
    SelectSeq(g.content,
              LAMBDA it: /\ it.rel = "CONTAINS"
                         /\ it.name \in allowed
                         /\ \/ it.name = "ImageRegion" /\ it.vt \in {"SCOORD", "SCOORD3D"}
                            \/ it.name = "VolumeSurface" /\ it.vt = "SCOORD3D"
                            \/ it.name = "ReferencedSegment" /\ it.vt = "IMAGE"
                            \/ it.name = "ReferencedSegmentationFrame" /\ it.vt = "IMAGE"
                            \/ it.name = "RegionInSpace" /\ it.vt = "COMPOSITE")

\* C6: _get_roi_reference_items(group, allowed) considers only the direct
\* children with relationship CONTAINS whose name is in allowed and whose
\* value type is an expected one for that name.  It returns (reference type,
\* all such items in document order) when they share one concept name and
\* either that name is Image Region or Volume Surface or there is exactly
\* one item; it raises RuntimeError when two of them have different names,
\* when a reference type other than Image Region and Volume Surface has more
\* than one item, and when no item matches.
C6_RoiReferenceItems ==
    last.op = "_get_roi_reference_items" =>
        LET m == Considered(group, last.args)
            oneName == \A i, j \in DOMAIN m : m[i].name = m[j].name
        IN IF /\ Len(m) > 0
              /\ oneName
              /\ (m[1].name \in {"ImageRegion", "VolumeSurface"} \/ Len(m) = 1)
           THEN last.result = Ok(<<m[1].name, m>>)
           ELSE last.result.status = "RuntimeError"

\* Two volume surface items were returned, in document order, from a group
\* that also holds a child the function does not consider.
C6_Witness ==
    /\ last.op = "_get_roi_reference_items"
    /\ last.args = VolumetricAllowed
    /\ Len(group.content) = 3
    /\ last.result.status = "ok"
    /\ last.result.value[1] = "VolumeSurface"
    /\ Len(last.result.value[2]) = 2

(***************************************************************************)
(* Claims about the ROI measurement group constructors (checked under      *)
(* SpecCtor)                                                               *)
(***************************************************************************)

IsA(x, types) == IsNone(x) \/ x.type \in types

ListOf(x, types) ==
    IsNone(x) \/ (x.type = "list" /\ \A i \in DOMAIN x.items : x.items[i].type \in types)

\* The arguments other than the ROI references have the types their slots
\* ask for.
WellTypedCommon(a) ==
    /\ a.tracking_identifier.type = "TrackingIdentifier"
    /\ ListOf(a.finding_sites, {"FindingSite"})
    /\ IsA(a.algorithm_id, {"AlgorithmIdentification"})
    /\ IsA(a.time_point_context, {"TimePointContext"})
    /\ IsA(a.referenced_real_world_value_map, {"RealWorldValueMap"})
    /\ ListOf(a.measurements, {"Measurement"})
    /\ ListOf(a.qualitative_evaluations, {"QualitativeEvaluation"})

\* The ROI reference arguments have the types the constructor op asks for.
WellTypedReferences(op, a) ==
    IF op = "PlanarROI"
    THEN /\ IsA(a.referenced_region, {"ImageRegion", "ImageRegion3D"})
         /\ IsA(a.referenced_segment, {"ReferencedSegmentationFrame"})
    ELSE /\ ListOf(a.referenced_regions, {"ImageRegion"})
         /\ IsA(a.referenced_volume_surface, {"VolumeSurface"})
         /\ IsA(a.referenced_segment, {"ReferencedSegment"})

\* The number of ROI reference arguments supplied to the constructor op.
ReferencesSupplied(op, a) ==
    IF op = "PlanarROI"
    THEN Cardinality({x \in {"region", "segment"} :
            \/ x = "region" /\ ~IsNone(a.referenced_region)
            \/ x = "segment" /\ ~IsNone(a.referenced_segment)})
    ELSE Cardinality({x \in {"regions", "surface", "segment"} :
            \/ x = "regions" /\ ~IsNone(a.referenced_regions)
            \/ x = "surface" /\ ~IsNone(a.referenced_volume_surface)
            \/ x = "segment" /\ ~IsNone(a.referenced_segment)})

\* The measurement carries a SCOORD or SCOORD3D child under its NUM item.
CarriesCoordinates(m) ==
    /\ m.type = "Measurement"
    /\ \E i \in DOMAIN m.items[1].content :
           m.items[1].content[i].vt \in {"SCOORD", "SCOORD3D"}

SomeCarriesCoordinates(a) ==
    /\ ~IsNone(a.measurements)
    /\ \E i \in DOMAIN a.measurements.items : CarriesCoordinates(a.measurements.items[i])

\* Arguments that are valid but for the number of ROI references supplied:
\* a complete tracking identifier, every argument of its slot's type, a list
\* of regions not empty, no measurement with referenced coordinates.
OtherwiseValid(op, a) ==
    /\ WellTypedCommon(a)
    /\ Len(a.tracking_identifier.items) = 2
    /\ WellTypedReferences(op, a)
    /\ (op = "VolumetricROI" /\ ~IsNone(a.referenced_regions)) =>
           a.referenced_regions.items # <<>>
    /\ ~SomeCarriesCoordinates(a)

IsROICall == last.op \in {"PlanarROI", "VolumetricROI"}

\* C1: constructing a planar or volumetric ROI measurement group with
\* otherwise valid arguments raises ValueError when none or more than one of
\* the ROI reference arguments is supplied (not None), and succeeds when
\* exactly one is supplied.
C1_ExactlyOneReference ==
    (IsROICall /\ OtherwiseValid(last.op, last.args)) =>
        IF ReferencesSupplied(last.op, last.args) = 1
        THEN last.result.status = "ok"
        ELSE last.result.status = "ValueError"

\* A volumetric group was constructed with a volume surface and a
\* referenced segment, both valid, and all optional arguments.
C1_Witness ==
    /\ last.op = "VolumetricROI"
    /\ OtherwiseValid(last.op, last.args)
    /\ IsNone(last.args.referenced_regions)
    /\ ReferencesSupplied(last.op, last.args) = 2
    /\ last.args.finding_type = "F1"
    /\ last.result.status = "ValueError"

\* C2: constructing a planar or volumetric ROI measurement group with
\* measurements of which one carries a referenced-coordinates child (SCOORD
\* or SCOORD3D under its NUM item) raises ValueError (the arguments being of
\* their slots' types); if no measurement carries referenced coordinates,
\* the check for them never raises.
C2_NoReferencedCoordinates ==
    IsROICall =>
        /\ (/\ SomeCarriesCoordinates(last.args)
            /\ WellTypedCommon(last.args)
            /\ WellTypedReferences(last.op, last.args)) =>
               last.result.status = "ValueError"
        /\ SomeCarriesCoordinates(last.args) => last.result.status # "ok"
        /\ ~SomeCarriesCoordinates(last.args) =>
               last.result # Raise("ValueError", "referenced coordinates")

\* A planar group was constructed with one image region and two
\* measurements, the second carrying referenced coordinates, and the check
\* for them raised.
C2_Witness ==
    /\ last.op = "PlanarROI"
    /\ ~IsNone(last.args.measurements)
    /\ Len(last.args.measurements.items) = 2
    /\ ~CarriesCoordinates(last.args.measurements.items[1])
    /\ CarriesCoordinates(last.args.measurements.items[2])
    /\ last.result = Raise("ValueError", "referenced coordinates")

(***************************************************************************)
(* Claims about the Measurement Report constructor (checked under          *)
(* SpecReport)                                                             *)
(***************************************************************************)

IsReportCall == last.op = "MeasurementReport"

\* The procedures as the caller supplied them: a single code or a sequence.
SuppliedProcedures(a) ==
    IF a.procedure_reported.type = "list"
    THEN a.procedure_reported.items
    ELSE <<a.procedure_reported>>

ImagesSupplied(a) ==
    ~IsNone(a.referenced_images) /\ Len(a.referenced_images.items) > 0

\* C7: every successfully constructed MeasurementReport is a root sequence
\* (is_root true) of exactly one CONTAINER item with template id '1500'
\* whose children are, in this order: the language item(s) (the code en-US
\* of scheme RFC5646 when no language argument is given), the observation
\* context items, one Procedure Reported CODE item per supplied procedure in
\* supplied order, the Image Library item if and only if referenced_images
\* is non-empty, and last exactly one Imaging Measurements container, which
\* holds at least one measurement group.
C7_ReportStructure ==
    (IsReportCall /\ last.result.status = "ok") =>
        LET a == last.args
            r == last.result.value
            c == r.items[1].content
            lang == IF IsNone(a.language_of_content_item_and_descendants)
                    THEN <<Item("LanguageOfContentItemAndDescendants", "CODE",
                                "HAS_CONCEPT_MOD", "RFC5646:en-US")>>
                    ELSE a.language_of_content_item_and_descendants.items
            ctx == a.observation_context.items
            procs == SuppliedProcedures(a)
            n == Len(lang) + Len(ctx) + Len(procs)
            library == SubSeq(c, n + 1, Len(c) - 1)
            measurements == c[Len(c)]
        IN /\ report = r
           /\ r.is_root
           /\ Len(r.items) = 1
           /\ r.items[1].vt = "CONTAINER"
           /\ r.items[1].tid = "1500"
           /\ Len(c) >= n + 1
           /\ SubSeq(c, 1, Len(lang)) = lang
           /\ SubSeq(c, Len(lang) + 1, Len(lang) + Len(ctx)) = ctx
           /\ \A i \in DOMAIN procs :
                  c[Len(lang) + Len(ctx) + i] =
                      Item("ProcedureReported", "CODE", "HAS_CONCEPT_MOD",
                           procs[i].value)
           /\ IF ImagesSupplied(a)
              THEN /\ Len(library) = 1
                   /\ library[1].name = "ImageLibrary"
                   /\ library[1].vt = "CONTAINER"
              ELSE library = <<>>
           /\ measurements.name = "ImagingMeasurements"
           /\ measurements.vt = "CONTAINER"
           /\ Len(measurements.content) >= 1
           /\ \A i \in DOMAIN measurements.content :
                  IsMeasurementGroup(measurements.content[i])
           /\ Cardinality({i \in DOMAIN c : c[i].name = "ImagingMeasurements"}) = 1

\* A report was constructed with the default language, a person, a device
\* and a subject context, two procedures, referenced images and two groups.
C7_Witness ==
    /\ IsReportCall
    /\ last.result.status = "ok"
    /\ IsNone(last.args.language_of_content_item_and_descendants)
    /\ Len(last.args.observation_context.items) > 3
    /\ Len(SuppliedProcedures(last.args)) = 2
    /\ ImagesSupplied(last.args)
    /\ Len(last.args.imaging_measurements.items) = 2
    /\ Len(report.items[1].content) = Len(last.args.observation_context.items) + 5

\* The arguments other than imaging_measurements are ones the constructor
\* accepts.
OtherArgumentsValid(a) ==
    /\ a.title.type \in {"NoneType", "CodedConcept", "Code"}
    /\ ImagesSupplied(a) =>
           \A i \in DOMAIN a.referenced_images.items :
               a.referenced_images.items[i].SOPClassUID
                   \in {"CTImageStorage", "MRImageStorage"}

\* C8: constructing a MeasurementReport with zero imaging measurements is an
\* error and produces no report: whatever the other arguments, the call
\* raises when imaging_measurements is an empty sequence or None; with other
\* arguments the constructor accepts, the empty sequence raises ValueError
\* and None raises TypeError, both from the check of imaging_measurements.
C8_ZeroMeasurements ==
    IsReportCall =>
        LET a == last.args IN
        /\ (a.imaging_measurements = List(<<>>)) =>
               /\ last.result.status # "ok"
               /\ report = NoReport
               /\ OtherArgumentsValid(a) =>
                      last.result = Raise("ValueError", "imaging_measurements is empty")
        /\ IsNone(a.imaging_measurements) =>
               /\ last.result.status # "ok"
               /\ report = NoReport
               /\ OtherArgumentsValid(a) =>
                      last.result = Raise("TypeError", "imaging_measurements is required")

\* The constructor was called with an empty sequence of measurements and
\* otherwise valid arguments, referenced images among them.
C8_Witness ==
    /\ IsReportCall
    /\ last.args.imaging_measurements = List(<<>>)
    /\ OtherArgumentsValid(last.args)
    /\ ImagesSupplied(last.args)
    /\ last.result.status = "ValueError"
    /\ report = NoReport

(***************************************************************************)
(* Claims about the measurement-group getters (checked under SpecQuery)    *)
(***************************************************************************)

Getters ==
    {"get_planar_roi_measurement_groups", "get_volumetric_roi_measurement_groups",
     "get_image_measurement_groups"}

IsGetterCall == last.op \in Getters

\* The measurement groups of the report in document order: the Measurement
\* Group containers in the first Imaging Measurements container of the root.
ReportGroups ==
    LET containers == SelectSeq(report.items[1].content,
                                LAMBDA it: it.name = "ImagingMeasurements"
                                           /\ it.vt = "CONTAINER")
    IN IF containers = <<>> THEN <<>>
       ELSE SelectSeq(containers[1].content, IsMeasurementGroup)

\* Whether the getter op considers the group g.
IsCandidate(op, g) ==
    IF g.tid # None
    THEN \/ op = "get_planar_roi_measurement_groups" /\ g.tid = "1410"
         \/ op = "get_volumetric_roi_measurement_groups" /\ g.tid = "1411"
         \/ op = "get_image_measurement_groups" /\ g.tid = "1501"
    ELSE \/ /\ op = "get_planar_roi_measurement_groups"
            /\ _contains_planar_rois(g) = Ok(TRUE)
         \/ /\ op = "get_volumetric_roi_measurement_groups"
            /\ _contains_volumetric_rois(g) = Ok(TRUE)
         \/ /\ op = "get_image_measurement_groups"
            /\ _contains_planar_rois(g) = Ok(FALSE)
            /\ _contains_volumetric_rois(g) = Ok(FALSE)

NoFilters(f) ==
    /\ f.tracking_uid = None
    /\ f.finding_type = None
    /\ f.finding_site = None
    /\ f.reference_type = None
    /\ IsNone(f.graphic_type)
    /\ f.referenced_sop_instance_uid = None
    /\ f.referenced_sop_class_uid = None

\* The groups as a getter returns them: one single-item sequence per group.
Returned(groups) == [i \in DOMAIN groups |-> <<groups[i]>>]

\* C9: a getter returns no group it does not consider, and without filters
\* it returns every group it considers: a group carrying a template
\* identifier is considered by the planar getter only when the identifier is
\* '1410', by the volumetric getter only when it is '1411', by the image
\* getter only when it is '1501', irrespective of its contents; a group
\* carrying none is considered by the planar getter iff
\* _contains_planar_rois, by the volumetric getter iff
\* _contains_volumetric_rois, by the image getter iff neither is true.
C9_TemplateIdThenHeuristic ==
    IsGetterCall =>
        /\ last.result.status = "ok" =>
               \A i \in DOMAIN last.result.value :
                   /\ Len(last.result.value[i]) = 1
                   /\ IsCandidate(last.op, last.result.value[i][1])
        /\ NoFilters(last.args) =>
               last.result =
                   Ok(Returned(SelectSeq(ReportGroups,
                                         LAMBDA g: IsCandidate(last.op, g))))

\* The planar getter, asked without filters, returned a group with template
\* identifier '1410' whose content is volumetric, and a group without
\* template identifier that holds one image region.
C9_Witness ==
    /\ last.op = "get_planar_roi_measurement_groups"
    /\ NoFilters(last.args)
    /\ last.result.status = "ok"
    /\ Len(last.result.value) = 2
    /\ LET g == last.result.value[1][1] IN
           /\ g.tid = "1410"
           /\ _contains_planar_rois(g) = Ok(FALSE)
           /\ _contains_volumetric_rois(g) = Ok(TRUE)
    /\ LET g == last.result.value[2][1] IN
           /\ g.tid = None
           /\ _contains_planar_rois(g) = Ok(TRUE)

HasChild(g, name, vt, rel, val) ==
    \E i \in DOMAIN g.content :
        /\ g.content[i].name = name
        /\ g.content[i].vt = vt
        /\ g.content[i].rel = rel
        /\ g.content[i].val = val

\* The instance an IMAGE or COMPOSITE item references is the one asked for.
RefersTo(item, f) ==
    /\ f.referenced_sop_instance_uid = None
       \/ item.val = f.referenced_sop_instance_uid
    /\ f.referenced_sop_class_uid = None
       \/ referenced_sop_class_uid(item) = f.referenced_sop_class_uid

HasImage(parent, names, rel, f) ==
    \E i \in DOMAIN parent.content :
        /\ parent.content[i].vt = "IMAGE"
        /\ parent.content[i].rel = rel
        /\ names = {} \/ parent.content[i].name \in names
        /\ RefersTo(parent.content[i], f)

\* The filters, each on its own.  The ROI reference of a group is what
\* _get_roi_reference_items considers under the getter's allowed types.
TrackingUidMatches(g, f) ==
    f.tracking_uid = None
    \/ HasChild(g, "TrackingUniqueIdentifier", "UIDREF", "HAS_OBS_CONTEXT",
                f.tracking_uid)

FindingTypeMatches(g, f) ==
    f.finding_type = None
    \/ HasChild(g, "Finding", "CODE", "CONTAINS", f.finding_type)

FindingSiteMatches(g, f) ==
    f.finding_site = None
    \/ HasChild(g, "FindingSite", "CODE", "HAS_CONCEPT_MOD", f.finding_site)

ReferenceTypeMatches(refs, f) ==
    f.reference_type = None \/ refs[1].name = f.reference_type

GraphicTypeMatches(refs, f) ==
    IsNone(f.graphic_type)
    \/ /\ refs[1].val = f.graphic_type.value
       /\ refs[1].vt = (IF f.graphic_type.type = "GraphicTypeValues"
                        THEN "SCOORD" ELSE "SCOORD3D")

\* The referenced SOP class and instance UID are one filter on the referenced
\* instance: the reference itself, the source image of a 2D image region, or
\* the source image of the segmentation.
ReferencedUidMatches(g, refs, f) ==
    (f.referenced_sop_instance_uid = None /\ f.referenced_sop_class_uid = None)
    \/ /\ refs[1].vt \in {"IMAGE", "COMPOSITE"}
       /\ RefersTo(refs[1], f)
    \/ /\ refs[1].name = "ImageRegion"
       /\ \E i \in DOMAIN refs :
              refs[i].vt = "SCOORD" /\ HasImage(refs[i], {}, "SELECTED_FROM", f)
    \/ /\ refs[1].vt = "IMAGE"
       /\ HasImage(g, {"SourceImageForSegmentation"}, "CONTAINS", f)

FiltersMatch(op, g, f) ==
    /\ TrackingUidMatches(g, f)
    /\ FindingTypeMatches(g, f)
    /\ FindingSiteMatches(g, f)
    /\ IF op = "get_image_measurement_groups"
       THEN \/ f.referenced_sop_instance_uid = None
               /\ f.referenced_sop_class_uid = None
            \/ HasImage(g, {"Source"}, "CONTAINS", f)
       ELSE LET refs == Considered(g, IF op = "get_planar_roi_measurement_groups"
                                      THEN PlanarAllowed ELSE VolumetricAllowed)
            IN \/ /\ f.reference_type = None
                  /\ IsNone(f.graphic_type)
                  /\ f.referenced_sop_instance_uid = None
                  /\ f.referenced_sop_class_uid = None
               \/ /\ ReferenceTypeMatches(refs, f)
                  /\ GraphicTypeMatches(refs, f)
                  /\ ReferencedUidMatches(g, refs, f)

\* C10: whenever a getter returns, it returns exactly the groups it
\* considers for which every supplied filter (tracking_uid, finding_type,
\* finding_site, reference_type, graphic_type, referenced SOP class and
\* instance UID) matches, in report order; a filter that is not supplied
\* excludes nothing, so a call without filters returns all groups of that
\* kind; and a call whose filters are only tracking_uid, finding_type and
\* finding_site always returns.
C10_AllFiltersMatch ==
    IsGetterCall =>
        /\ last.result.status = "ok" =>
               last.result.value =
                   Returned(SelectSeq(ReportGroups,
                                      LAMBDA g: /\ IsCandidate(last.op, g)
                                                /\ FiltersMatch(last.op, g, last.args)))
        /\ ( /\ last.args.reference_type = None
             /\ IsNone(last.args.graphic_type)
             /\ last.args.referenced_sop_instance_uid = None
             /\ last.args.referenced_sop_class_uid = None )
               => last.result.status = "ok"

\* The planar getter, asked for finding F1 and tracking UID 1.2.3 in a report
\* of two planar groups that both have finding F1, returned only the one
\* that also has the tracking UID.
C10_Witness ==
    /\ last.op = "get_planar_roi_measurement_groups"
    /\ last.args.finding_type = "F1"
    /\ last.args.tracking_uid = "1.2.3"
    /\ Len(ReportGroups) = 2
    /\ \A i \in 1..2 :
           /\ IsCandidate(last.op, ReportGroups[i])
           /\ FindingTypeMatches(ReportGroups[i], last.args)
    /\ ~TrackingUidMatches(ReportGroups[1], last.args)
    /\ last.result = Ok(<<<<ReportGroups[2]>>>>)

(***************************************************************************)
(* Claims about the groups of a constructed report (checked under          *)
(* SpecReport)                                                             *)
(***************************************************************************)

\* C11: for a MeasurementReport built from the measurement groups g1..gN in
\* that order, _find_measurement_groups returns exactly N Measurement Group
\* container items, the i-th being the group item of gi.
C11_GroupsInOrder ==
    last.op = "_find_measurement_groups" =>
        LET gs == last.args.imaging_measurements.items
            found == last.result.value
        IN /\ last.result.status = "ok"
           /\ Len(found) = Len(gs)
           /\ \A i \in DOMAIN gs :
                  /\ found[i] = gs[i].items[1]
                  /\ IsMeasurementGroup(found[i])

\* The groups of a report built from a volumetric group followed by a planar
\* group were found.
C11_Witness ==
    /\ last.op = "_find_measurement_groups"
    /\ Len(last.args.imaging_measurements.items) = 2
    /\ last.args.imaging_measurements.items[1].type =
           "VolumetricROIMeasurementsAndQualitativeEvaluations"
    /\ last.args.imaging_measurements.items[2].type =
           "PlanarROIMeasurementsAndQualitativeEvaluations"
    /\ last.result.value[1].tid = "1411"
    /\ last.result.value[2].tid = "1410"

(***************************************************************************)
(* Claims about the context templates and the context getters (checked     *)
(* under SpecContext)                                                      *)
(***************************************************************************)

IsContextGetterCall == last.op \in {"get_observer_contexts", "get_subject_contexts"}

\* The context rebuilt from the children of one marker.
RebuiltContext(marker, children) ==
    LET attributes ==
            IF marker.name = "ObserverType"
            THEN (IF marker.val = "Person"
                  THEN PersonObserverIdentifyingAttributes_from_sequence(children)
                  ELSE DeviceObserverIdentifyingAttributes_from_sequence(children))
            ELSE (IF marker.val = "Fetus"
                  THEN SubjectContextFetus_from_sequence(children)
                  ELSE SubjectContextSpecimen_from_sequence(children))
    IN IF attributes.status # "ok" THEN attributes
       ELSE IF marker.name = "ObserverType"
       THEN ObserverContext(marker.val, attributes.value)
       ELSE SubjectContext(marker.val, attributes.value)

\* The children after the k-th marker and before the next one; after the
\* last marker, all children up to and including the last child.
ChildrenOfMarker(content, matches, k) ==
    SubSeq(content, matches[k] + 1,
           IF k < Len(matches) THEN matches[k + 1] - 1 ELSE Len(content))

\* C12: get_observer_contexts and get_subject_contexts rebuild the k-th
\* context from the children of the root container after the k-th marker and
\* before the (k+1)-th marker, the last one from all children after the last
\* marker up to and including the last child of the root container.
C12_SlicesBetweenMarkers ==
    IsContextGetterCall =>
        LET content == report.items[1].content
            observers == last.op = "get_observer_contexts"
            matches == Markers(content,
                               IF observers THEN "ObserverType" ELSE "SubjectClass")
            filter == IF observers THEN last.args.observer_type
                      ELSE last.args.subject_class
            wanted == SelectSeq([k \in 1..Len(matches) |-> k],
                                LAMBDA k : filter = None
                                           \/ content[matches[k]].val = filter)
            Rebuilt(k) == RebuiltContext(content[matches[k]],
                                         ChildrenOfMarker(content, matches, k))
        IN IF \A i \in DOMAIN wanted : Rebuilt(wanted[i]).status = "ok"
           THEN last.result
                    = Ok([i \in DOMAIN wanted |-> Rebuilt(wanted[i]).value])
           ELSE last.result.status # "ok"

\* C13: a context template built by its constructor and parsed back by the
\* from_sequence of its class has the item sequence it was built with: the
\* same items in the same order, none lost.
C13_RoundTrip ==
    last.op = "Template.from_sequence" =>
        last.result = Ok(Obj(last.args.cls, last.args.sequence))

\* C14: ObserverContext raises TypeError when the observer type is Person
\* and the attributes are not person attributes, or it is Device and they are
\* not device attributes, ValueError when the observer type is neither;
\* otherwise it holds the Observer Type CODE item followed by the items of
\* the attributes in order.
C14_ObserverContextChecks ==
    last.op = "ObserverContext" =>
        LET observer_type == last.args.observer_type
            attributes == last.args.observer_identifying_attributes
        IN IF /\ observer_type = "Person"
              /\ attributes.type # "PersonObserverIdentifyingAttributes"
           THEN last.result.status = "TypeError"
           ELSE IF /\ observer_type = "Device"
                   /\ attributes.type # "DeviceObserverIdentifyingAttributes"
           THEN last.result.status = "TypeError"
           ELSE IF observer_type \notin {"Person", "Device"}
           THEN last.result.status = "ValueError"
           ELSE /\ last.result.status = "ok"
                /\ Len(last.result.value.items) = 1 + Len(attributes.items)
                /\ Head(last.result.value.items).name = "ObserverType"
                /\ Head(last.result.value.items).vt = "CODE"
                /\ Head(last.result.value.items).val = observer_type
                /\ Tail(last.result.value.items) = attributes.items

\* A Device observer with the attributes of a person is refused.
C14_Witness ==
    /\ last.op = "ObserverContext"
    /\ last.args.observer_type = "Device"
    /\ last.args.observer_identifying_attributes.type
           = "PersonObserverIdentifyingAttributes"
    /\ last.result.status = "TypeError"

SubjectClassOf(type) ==
    CASE type = "SubjectContextSpecimen" -> "Specimen"
      [] type = "SubjectContextFetus" -> "Fetus"
      [] type = "SubjectContextDevice" -> "Device"

IsSubjectContextPair ==
    /\ last.op = "SubjectContext"
    /\ last.args.subject_class \in {"Specimen", "Fetus", "Device"}
    /\ last.args.subject_class_specific_context.type
           \in {"SubjectContextSpecimen", "SubjectContextFetus",
                "SubjectContextDevice"}

IsMismatch ==
    SubjectClassOf(last.args.subject_class_specific_context.type)
        # last.args.subject_class

\* C15 (as amended): SubjectContext raises TypeError when the subject class
\* does not match the concrete type of the subject class specific context;
\* a matching pair constructs the Subject Class CODE item followed by the
\* items of the context.
C15_SubjectContextChecks ==
    IsSubjectContextPair =>
        IF IsMismatch
        THEN last.result.status = "TypeError"
        ELSE /\ last.result.status = "ok"
             /\ Head(last.result.value.items).name = "SubjectClass"
             /\ Head(last.result.value.items).val = last.args.subject_class
             /\ Tail(last.result.value.items)
                    = last.args.subject_class_specific_context.items

\* The subject class Fetus with the context of a specimen is refused.
C15_Witness ==
    /\ IsSubjectContextPair
    /\ last.args.subject_class = "Fetus"
    /\ last.args.subject_class_specific_context.type = "SubjectContextSpecimen"
    /\ last.result.status = "TypeError"

\* C15 (as stated): a mismatched pair raises ValueError, a matching pair
\* constructs.
C15_MismatchIsValueError ==
    IsSubjectContextPair =>
        IF IsMismatch
        THEN last.result.status = "ValueError"
        ELSE last.result.status = "ok"

\* The image carries the specimen module: the container identifier and a
\* first specimen description with its identifier and UID.
CarriesSpecimenModule(image) ==
    /\ {"ContainerIdentifier", "SpecimenDescriptionSequence"} \subseteq image.attrs
    /\ Len(image.SpecimenDescriptionSequence) > 0
    /\ {"SpecimenIdentifier", "SpecimenUID"}
           \subseteq image.SpecimenDescriptionSequence[1].attrs

NoSpecimenDescription(image) == "SpecimenDescriptionSequence" \notin image.attrs

\* C16: SubjectContextSpecimen.from_image raises ValueError for every image
\* without a Specimen Description Sequence and SubjectContext.from_image
\* then returns None; for an image with the specimen module the specimen
\* UID, identifier, container identifier and optional type of the result are
\* those of the image and its first specimen description.
C16_FromImage ==
    /\ last.op = "SubjectContextSpecimen.from_image" =>
           /\ NoSpecimenDescription(last.args)
                  => last.result.status = "ValueError"
           /\ CarriesSpecimenModule(last.args) =>
                  LET description == last.args.SpecimenDescriptionSequence[1] IN
                  last.result =
                      Ok(SubjectContextSpecimen(
                             description.SpecimenUID,
                             description.SpecimenIdentifier,
                             last.args.ContainerIdentifier,
                             IF "SpecimenTypeCodeSequence" \in description.attrs
                             THEN description.SpecimenTypeCodeSequence[1]
                             ELSE None))
    /\ last.op = "SubjectContext.from_image" =>
           (NoSpecimenDescription(last.args) => last.result = Ok(NoneV))

(***************************************************************************)
(* Claims about TID 300 Measurement (checked under SpecMeasurement)        *)
(***************************************************************************)

\* C17: Measurement.from_sequence raises ValueError for more than one item,
\* raises for an empty sequence and raises TypeError for a single item that
\* is no NUM item; when it succeeds the sequence held exactly one NUM item
\* and the result is one NUM item with its name, value, unit, qualifier and
\* children in the same order.
C17_FromSequence ==
    last.op = "Measurement.from_sequence" =>
        LET sequence == last.args IN
        /\ Len(sequence) > 1 => last.result.status = "ValueError"
        /\ Len(sequence) = 0 => last.result.status # "ok"
        /\ (Len(sequence) = 1 /\ sequence[1].items[1].vt # "NUM")
               => last.result.status = "TypeError"
        /\ last.result.status = "ok" =>
               /\ Len(sequence) = 1
               /\ sequence[1].items[1].vt = "NUM"
               /\ Len(last.result.value.items) = 1
               /\ last.result.value.items[1].vt = "NUM"
               /\ last.result.value.items[1].name = sequence[1].items[1].name
               /\ last.result.value.items[1].val = sequence[1].items[1].val
               /\ last.result.value.items[1].content
                      = sequence[1].items[1].content

\* A qualified NUM item with two children is parsed.
C17_Witness ==
    /\ last.op = "Measurement.from_sequence"
    /\ last.result.status = "ok"
    /\ last.result.value.items[1].val.qualifier = "NaN"
    /\ Len(last.result.value.items[1].content) = 2

\* The direct children of the NUM item under work with the name (any name
\* when None) and the value type.
CurrentMatches(name, value_type) ==
    SelectSeq(group.content,
              LAMBDA it : (name = None \/ it.name = name) /\ it.vt = value_type)

WrappedAs(cls, items) == [i \in DOMAIN items |-> Obj(cls, <<items[i]>>)]

\* C18: whatever was appended to the children of the NUM item, method and
\* derivation return the value of the first matching child among the
\* current children (None without a match), finding_sites,
\* referenced_images and referenced_coordinates the matching current
\* children in order (the empty list without a match).
C18_ComputedViews ==
    /\ last.op = "method" =>
           last.result.value =
               IF CurrentMatches("MeasurementMethod", "CODE") = <<>> THEN None
               ELSE Head(CurrentMatches("MeasurementMethod", "CODE")).val
    /\ last.op = "derivation" =>
           last.result.value =
               IF CurrentMatches("Derivation", "CODE") = <<>> THEN None
               ELSE Head(CurrentMatches("Derivation", "CODE")).val
    /\ last.op = "finding_sites" =>
           last.result.value =
               List(WrappedAs("FindingSite", CurrentMatches("FindingSite", "CODE")))
    /\ last.op = "referenced_images" =>
           last.result.value =
               List(WrappedAs("SourceImageForMeasurement",
                              CurrentMatches("SourceOfMeasurement", "IMAGE")))
    /\ last.op = "referenced_coordinates" =>
           last.result.value =
               List(CurrentMatches(None, "SCOORD")
                    \o CurrentMatches(None, "SCOORD3D"))

\* A method appended after construction is the one returned.
C18_Witness ==
    /\ last.op = "method"
    /\ last.result.value = "Caliper"
    /\ Len(group.content) = MaxChildItems

(***************************************************************************)
(* Claims about the accessor properties (checked under SpecAccessor)       *)
(***************************************************************************)

\* The positions in items of the items with the concept name and, unless
\* None, the value type.
Positions(items, name, value_type) ==
    {i \in DOMAIN items :
         /\ items[i].name = name
         /\ (value_type = None \/ items[i].vt = value_type)}

First(positions) == CHOOSE i \in positions : \A j \in positions : i <= j

\* C19: an accessor property of an optional singular field returns None when
\* no item bears the concept name of the field and the value of the first
\* such item in document order when one or more do; the list-valued
\* accessors return the empty list when nothing matches.
C19_FirstMatchOrNone ==
    /\ last.op = "Template.property" =>
           LET items == last.args.self.items
               positions ==
                   Positions(items,
                             TemplateAccessors[last.args.self.type][
                                 last.args.property],
                             None)
           IN /\ last.result.status = "ok"
              /\ last.result.value = IF positions = {} THEN None
                                     ELSE items[First(positions)].val
    /\ last.op = "Group.property" =>
           LET positions == Positions(group.content,
                                      GroupAccessors[last.args.property][1],
                                      GroupAccessors[last.args.property][2])
           IN /\ last.result.status = "ok"
              /\ last.result.value = IF positions = {} THEN None
                                     ELSE group.content[First(positions)].val
    /\ last.op = "Group.item" =>
           LET positions == Positions(group.content,
                                      GroupItemAccessors[last.args.property][1],
                                      GroupItemAccessors[last.args.property][2])
           IN /\ last.result.status = "ok"
              /\ IF positions = {} THEN IsNone(last.result.value)
                 ELSE last.result.value.items
                          = <<group.content[First(positions)]>>
    /\ last.op = "Group.finding_sites" =>
           (Positions(group.content, "FindingSite", "CODE") = {}
                => last.result = Ok(List(<<>>)))
    /\ last.op = "Group._source_image_for_segmentation_items" =>
           (Positions(group.content, "SourceImageForSegmentation", "IMAGE") = {}
                => last.result = Ok(List(<<>>)))

\* A person with two login names: the first one is returned.
C19_Witness ==
    /\ last.op = "Template.property"
    /\ last.args.property = "login_name"
    /\ Cardinality(Positions(last.args.self.items, "PersonObserverLoginName",
                             None)) = 2
    /\ last.result.value = "jdoe"

(***************************************************************************)
(* Claims about the type checks of the constructors (checked under         *)
(* SpecProperties)                                                         *)
(***************************************************************************)

\* The argument is given and is not of one of the types.
WrongType(x, types) == ~IsNone(x) /\ x.type \notin types

\* The argument is no list or tuple, or one of its elements is not of one of
\* the types.
WrongElements(x, types) ==
    \/ x.type \notin {"list", "tuple"}
    \/ \E i \in DOMAIN x.items : x.items[i].type \notin types

\* An argument of the last constructor call, or an element of one, has the
\* wrong concrete type for its slot.
WronglyTyped ==
    CASE last.op \in {"MeasurementStatisticalProperties", "NormalRangeProperties"} ->
             WrongElements(last.args.values, {"NumContentItem"})
      [] last.op = "MeasurementProperties" ->
             \/ WrongType(last.args.measurement_statistical_properties,
                          {"MeasurementStatisticalProperties"})
             \/ WrongType(last.args.normal_range_properties,
                          {"NormalRangeProperties"})
      [] last.op = "ObservationContext" ->
             \/ WrongType(last.args.observer_person_context, {"ObserverContext"})
             \/ WrongType(last.args.observer_device_context, {"ObserverContext"})
             \/ WrongType(last.args.subject_context, {"SubjectContext"})
      [] last.op = "Measurement" ->
             /\ ~IsNone(last.args.finding_sites)
             /\ WrongElements(last.args.finding_sites, {"FindingSite"})
      [] OTHER -> FALSE

\* C20: a template constructor raises TypeError, and returns no object, when
\* an argument or an element of a collection argument has the wrong concrete
\* type for its slot.
C20_WrongTypeIsTypeError ==
    WronglyTyped => last.result.status = "TypeError"

(***************************************************************************)
(* Claims about the image library (checked under SpecLibrary)              *)
(***************************************************************************)

Unmapped(ds) == ds.SOPClassUID \notin DOMAIN sopclass_to_modality_map

\* C21: _get_coded_modality returns the coded modality of the table for
\* every SOP Class UID the table holds and raises ValueError for every other
\* UID, never a default; so the constructors of ImageLibraryEntryDescriptors
\* and of ImageLibrary fail for a dataset with an unmapped SOP Class UID.
C21_UnmappedRaises ==
    /\ last.op = "_get_coded_modality" =>
           last.result =
               IF last.args \in DOMAIN sopclass_to_modality_map
               THEN Ok(sopclass_to_modality_map[last.args])
               ELSE Raise("ValueError", "_get_coded_modality")
    /\ (last.op = "ImageLibraryEntryDescriptors" /\ Unmapped(last.args.image)) =>
           last.result.status = "ValueError"
    /\ (last.op = "ImageLibrary"
        /\ \E i \in DOMAIN last.args : Unmapped(last.args[i])) =>
           last.result.status = "ValueError"

\* The image library was asked for two datasets, the second of which has a
\* SOP Class UID the table lacks, and raised the error of the lookup.
C21_Witness ==
    /\ last.op = "ImageLibrary"
    /\ Len(last.args) = 2
    /\ ~Unmapped(last.args[1])
    /\ does_iod_have_pixel_data(last.args[1].SOPClassUID)
    /\ Unmapped(last.args[2])
    /\ last.result = Raise("ValueError", "_get_coded_modality")

\* The key of a dataset: its coded modality and its Frame of Reference UID
\* (None without one).
KeyOf(ds) == <<sopclass_to_modality_map[ds.SOPClassUID], ds.FrameOfReferenceUID>>

\* The keys of the datasets in the order of their first occurrence.
KeysInOrder(datasets) ==
    LET first == SelectSeq([i \in DOMAIN datasets |-> i],
                           LAMBDA i : \A j \in 1..(i - 1) :
                                          KeyOf(datasets[j]) # KeyOf(datasets[i]))
    IN [k \in DOMAIN first |-> KeyOf(datasets[first[k]])]

\* The library holds one Image Library Group per key, in the order of first
\* occurrence, and the IMAGE items of a group are those of the datasets with
\* its key in input order.
GroupedByKey(datasets, library) ==
    LET keys == KeysInOrder(datasets)
        groups == library.items[1].content
    IN /\ Len(groups) = Len(keys)
       /\ \A g \in DOMAIN groups :
              /\ groups[g].name = "ImageLibraryGroup"
              /\ groups[g].vt = "CONTAINER"
              /\ LET images == SelectSeq(groups[g].content,
                                         LAMBDA it : it.vt = "IMAGE")
                     members == SelectSeq(datasets,
                                          LAMBDA ds : KeyOf(ds) = keys[g])
                 IN [i \in DOMAIN images |-> images[i].val]
                        = [i \in DOMAIN members |-> members[i].SOPInstanceUID]

\* The group of datasets with a Frame of Reference UID starts with the
\* UIDREF item of that UID, before the IMAGE items.
FrameOfReferenceFirst(datasets, library) ==
    LET keys == KeysInOrder(datasets)
        groups == library.items[1].content
    IN \A g \in DOMAIN groups :
           (g \in DOMAIN keys /\ keys[g][2] # None) =>
               /\ groups[g].content[1].name = "FrameOfReferenceUID"
               /\ groups[g].content[1].vt = "UIDREF"
               /\ groups[g].content[1].val = keys[g][2]
               /\ \A i \in 2..Len(groups[g].content) :
                      groups[g].content[i].vt = "IMAGE"

\* C29: ImageLibrary groups the images by (coded modality, Frame of
\* Reference UID): one Image Library Group per distinct key in order of first
\* occurrence, holding one IMAGE item per dataset of the key in input order;
\* and the group of datasets that carry a FrameOfReferenceUID has as its
\* first child a UIDREF 'Frame of Reference UID' item with the shared UID.
C29_GroupedByModalityAndFrame ==
    (last.op = "ImageLibrary" /\ last.result.status = "ok") =>
        /\ GroupedByKey(last.args, last.result.value)
        /\ FrameOfReferenceFirst(last.args, last.result.value)

\* The elements of additional_descriptors are all content items.
AllContentItems(additional_descriptors) ==
    \A i \in DOMAIN additional_descriptors.items :
        additional_descriptors.items[i].type \in ContentItemClasses

\* C30: every content item of a constructed ImageLibraryEntryDescriptors has
\* the relationship type HAS_ACQ_CONTEXT; the additional descriptors come
\* last in the order supplied, with that relationship type written into the
\* caller's objects whatever they held before; and for an image the
\* constructor accepts, an element that is no ContentItem raises TypeError.
C30_DescriptorsHaveAcqContext ==
    last.op = "ImageLibraryEntryDescriptors" =>
        LET result == last.result
            supplied == last.args.additional_descriptors
            n == Len(supplied.items)
        IN /\ result.status = "ok" =>
                  /\ \A i \in DOMAIN result.value :
                         result.value[i].rel = "HAS_ACQ_CONTEXT"
                  /\ Len(result.value) >= n
                  /\ \A i \in 1..n :
                         /\ result.value[Len(result.value) - n + i]
                                = [supplied.items[i].items[1] EXCEPT
                                      !.rel = "HAS_ACQ_CONTEXT"]
                         /\ last.after.items[i].items[1]
                                = result.value[Len(result.value) - n + i]
           /\ (/\ ImageLibraryEntryDescriptors(last.args.image, NoneV).status = "ok"
               /\ ~IsNone(supplied)
               /\ ~AllContentItems(supplied)) =>
                  result.status = "TypeError"

\* The descriptors of an image were built with two additional descriptors
\* that came with other relationship types.
C30_Witness ==
    /\ last.op = "ImageLibraryEntryDescriptors"
    /\ last.result.status = "ok"
    /\ Len(last.args.additional_descriptors.items) = 2
    /\ last.args.additional_descriptors.items[1].items[1].rel = "CONTAINS"
    /\ last.args.additional_descriptors.items[2].items[1].rel = "HAS_PROPERTIES"
    /\ last.after.items[1].items[1].rel = "HAS_ACQ_CONTEXT"
    /\ last.after.items[2].items[1].rel = "HAS_ACQ_CONTEXT"

(***************************************************************************)
(* Claims about repeated construction (checked under SpecTwice)            *)
(***************************************************************************)

ConstructedTwice == last.op # "none" /\ last.again # NotYet

\* The constructor had to generate an identifier: a TrackingIdentifier
\* without uid.
UidOmitted == last.op = "TrackingIdentifier" /\ last.args.uid = None

\* The two sequences have the same items but for the value of the Tracking
\* Unique Identifier items.
EqualButTrackingUid(first, second) ==
    /\ Len(first) = Len(second)
    /\ \A i \in DOMAIN first :
           IF first[i].name = "TrackingUniqueIdentifier"
           THEN [first[i] EXCEPT !.val = None] = [second[i] EXCEPT !.val = None]
           ELSE first[i] = second[i]

\* C22 as stated: two constructions of a class with equal arguments,
\* optional arguments such as the uid of TrackingIdentifier omitted or not,
\* give sequences that are equal item by item.
C22_Deterministic ==
    ConstructedTwice => last.again = last.result

\* C22, amended: two constructions with equal arguments give equal
\* sequences unless the uid of TrackingIdentifier is omitted; then each
\* construction generates its own identifier and the sequences are equal but
\* for the value of the Tracking Unique Identifier item.
C22_DeterministicButGeneratedUid ==
    ConstructedTwice =>
        IF UidOmitted
        THEN EqualButTrackingUid(last.result.value.items, last.again.value.items)
        ELSE last.again = last.result

\* A TrackingIdentifier was constructed twice with an identifier and without
\* uid: the two carry the same identifier and different unique identifiers.
C22_Witness ==
    /\ ConstructedTwice
    /\ last.op = "TrackingIdentifier"
    /\ last.args.identifier # None
    /\ last.args.uid = None
    /\ last.result.value.items[2].val # last.again.value.items[2].val
    /\ last.result.value.items[1] = last.again.value.items[1]

(***************************************************************************)
(* Claims about check_person_name (checked under SpecName)                 *)
(***************************************************************************)

IsNameCheck == last.op = "check_person_name"

C28_RebuiltAgreesWithAccessors ==
    (last.op = "Template.from_sequence" /\ last.result.status = "ok") =>
        LET self == last.args.self IN
        \A property \in DOMAIN TemplateAccessors[self.type] :
            TemplateProperty(last.result.value,
                             TemplateAccessors[self.type][property])
                = TemplateProperty(self, TemplateAccessors[self.type][property])

(***************************************************************************)
(* Claims about get_measurements and get_qualitative_evaluations (checked  *)
(* under SpecEvaluations)                                                  *)
(***************************************************************************)

\* The elements of an optional list argument.
Supplied(lst) == IF IsNone(lst) THEN <<>> ELSE lst.items

\* C24: a measurement group constructed with the measurements m1..mk and any
\* other optional arguments, a time point context included, returns from
\* get_measurements() exactly m1..mk in that order, and from
\* get_measurements(name) exactly those of them with the concept name.
C24_MeasurementsReturned ==
    last.op = "get_measurements" =>
        LET ms == Supplied(last.args.init.measurements)
        IN last.result =
               Ok(IF last.args.name = None THEN ms
                  ELSE SelectSeq(ms, LAMBDA m : m.items[1].name = last.args.name))

\* C25: a measurement group constructed with the qualitative evaluations
\* q1..qk and any other optional arguments (finding category, finding type,
\* method, finding sites, geometric purpose, a time point context with a
\* time point type) returns from get_qualitative_evaluations() exactly
\* q1..qk in that order.
C25_EvaluationsReturned ==
    (last.op = "get_qualitative_evaluations" /\ last.args.name = None) =>
        last.result = Ok(Supplied(last.args.init.qualitative_evaluations))

(***************************************************************************)
(* Claims about classification and reference extraction (checked under     *)
(* SpecQuery)                                                              *)
(***************************************************************************)

\* The filter arguments that filter nothing.
Unfiltered == CHOOSE f \in RoiFilters : NoFilters(f)

\* What the getter op returns for the report when asked without filters.
UnfilteredResult(op) ==
    CASE op = "get_planar_roi_measurement_groups" ->
             get_planar_roi_measurement_groups(report, Unfiltered)
      [] op = "get_volumetric_roi_measurement_groups" ->
             get_volumetric_roi_measurement_groups(report, Unfiltered)
      [] op = "get_image_measurement_groups" ->
             get_image_measurement_groups(report, Unfiltered)

\* The unfiltered getters that return the group g of the report.
ReturnedBy(g) ==
    {op \in Getters :
         \E i \in DOMAIN UnfilteredResult(op).value :
             UnfilteredResult(op).value[i] = <<g>>}

\* C26: the three unfiltered getters classify disjointly: every measurement
\* group of a report, with or without template identifier, is returned by at
\* most one of them, and _contains_planar_rois and _contains_volumetric_rois
\* are never both true for one group.
C26_DisjointClassification ==
    report # NoReport =>
        \A i \in DOMAIN ReportGroups :
            /\ Cardinality(ReturnedBy(ReportGroups[i])) <= 1
            /\ ~(/\ _contains_planar_rois(ReportGroups[i]) = Ok(TRUE)
                 /\ _contains_volumetric_rois(ReportGroups[i]) = Ok(TRUE))

\* C27: classification and reference extraction agree: for a group without
\* template identifier that _contains_planar_rois classifies as planar,
\* _get_planar_roi_reference_item returns one reference item, for one that
\* _contains_volumetric_rois classifies as volumetric,
\* _get_volumetric_roi_reference_items returns at least one; so no getter
\* call raises RuntimeError, whatever its filters.
C27_ClassifiedGroupsHaveReference ==
    /\ report # NoReport =>
           \A i \in DOMAIN ReportGroups :
               LET g == ReportGroups[i] IN
               /\ (g.tid = None /\ _contains_planar_rois(g) = Ok(TRUE)) =>
                      _get_planar_roi_reference_item(g).status = "ok"
               /\ (g.tid = None /\ _contains_volumetric_rois(g) = Ok(TRUE)) =>
                      /\ _get_volumetric_roi_reference_items(g).status = "ok"
                      /\ Len(_get_volumetric_roi_reference_items(g).value[2]) >= 1
    /\ IsGetterCall => last.result.status # "RuntimeError"

====
